---- MODULE Spec2Model ----
(***************************************************************************)
(* tcpy (src/tcpy.c): timed, verified copy / move / mirror of a file or a  *)
(* directory tree.  The model is the single-threaded control flow of       *)
(* main -> TimedCopy -> TimedCopyFile -> FilenameChecksum / KeyboardCheck  *)
(* over an explicit file system, with the operating system's answers       *)
(* (read results, failing calls, directory order, keys) left to the        *)
(* environment.                                                            *)
(*                                                                         *)
(* Paths are sequences of components ("s/x/" is <<"s","x">>, "./" is       *)
(* <<".">>).  The program compares paths as text (strcmp) and the kernel   *)
(* resolves them (stat): Canon is the resolution.                          *)
(***************************************************************************)
EXTENDS Integers, Sequences, FiniteSets, TLC

(* ------------------------------ bounds -------------------------------- *)
\* longest file content of an initial file system, in bytes
MaxLen == 3
\* system calls the environment may make fail (or cut short) in a behaviour
MaxFaults == 1
\* keys the user may press in a behaviour
MaxKeys == 1
\* runs of the same job on the same file system (the second is a re-run)
MaxRuns == 2
\* longest file that FilenameChecksum is given on its own, in bytes
ChecksumLen == 25
\* writes of the copy loop whose timing is followed in a behaviour
MaxWrites == 2
\* largest tv_sec of a struct timespec, read from the clock or left
\* uninitialised on the stack
MaxSec == 1

(* ------------------------- program constants -------------------------- *)
ERROR_TCPY == 1
ERROR_TCPY_USAGE == 2
ERROR_TCPY_MEM == 3
ERROR_TCPY_CIRC == 4
ERROR_TCPY_STOP == 5
TCPY_MODE_COPY == 0
TCPY_MODE_DEL == 1
TCPY_MODE_MIRROR == 2
COPYCOUNT == 50
\* the copy buffer, 32768 bytes in the source, scaled to 2 bytes so that
\* files of 0..MaxLen bytes need zero, one partial, one full and two reads
LNBIGBUFFER == 2
\* unsigned long of the tested platform (FreeBSD amd64, LP64)
ULongBits == 64
\* dirent d_type values
DT_DIR == 4
DT_REG == 8
\* nanoseconds of a second, 1000000000 in the source, scaled with TNSECBits
ONESECINNANO == 2
\* TNSEC is unsigned long long, 64 bits in the source, scaled to 4 bits so
\* that the differences and products of clock readings wrap within the bounds
TNSECBits == 4

(* ------------------------------ throttle ------------------------------ *)
\* arithmetic of TNSEC
Wrap(x) ==
  (x + 2^TNSECBits) % (2^TNSECBits)

\* a struct timespec
TimeSpecs ==
  {[tv_sec |-> sec, tv_nsec |-> nsec] : sec \in 0..MaxSec,
                                       nsec \in 0..(ONESECINNANO - 1)}

\* clock_gettime(CLOCK_REALTIME_FAST, &sTime) at time now: 0 and the time in
\* sTime, or -1 and sTime left as it was, which is uninitialised
ClockGettime(now) ==
  {[r |-> 0, sTime |-> now]} \cup {[r |-> -1, sTime |-> u] : u \in TimeSpecs}

\* NanoTime, given what clock_gettime did: the branch that computes the
\* time is the one taken when clock_gettime returns nonzero
NanoTime(c) ==
  IF c.r # 0 THEN Wrap(c.sTime.tv_sec * ONESECINNANO + c.sTime.tv_nsec)
  ELSE 0

\* the delay before a write of iRead bytes
Delay(giNanoPrev, giNanoFastest, iRead) ==
  LET iNano == Wrap(giNanoPrev - giNanoFastest)
  IN  IF iRead # LNBIGBUFFER THEN Wrap(iNano * iRead) \div LNBIGBUFFER
      ELSE iNano

\* giNanoPrev after a write of iRead bytes between two readings of NanoTime
Measured(before, after, iRead) ==
  LET iNano == Wrap(after - before)
  IN  IF iRead # LNBIGBUFFER THEN Wrap(iNano * LNBIGBUFFER) \div iRead
      ELSE iNano

Faster_Higher(giNanoPrev, giNanoFastest) ==
  giNanoPrev > giNanoFastest

\* the test that replaces giNanoFastest
Faster(giNanoPrev, giNanoFastest) ==
  giNanoFastest = 0 \/ giNanoPrev < giNanoFastest

(* ------------------------------ checksum ------------------------------ *)
\* An unsigned long is the set of its one-bits.
Bits(b) ==
  {i \in 0..7 : (b \div (2^i)) % 2 = 1}

\* one iteration of the while loop of ChecksumAdd
ChecksumStep(cs, b) ==
  LET iMsb == 31 \in cs
      x == (cs \ Bits(b)) \cup (Bits(b) \ cs)
      sh == {i + 1 : i \in {j \in x : j + 1 < ULongBits}}
  IN  IF iMsb THEN sh \cup {0} ELSE sh

RECURSIVE ChecksumAdd(_, _)
ChecksumAdd(buf, cs) ==
  IF buf = <<>> THEN cs
  ELSE ChecksumAdd(Tail(buf), ChecksumStep(cs, Head(buf)))

(* ----------------------------- file system ---------------------------- *)
\* what stat resolves a path to: "." components drop out
Canon(p) ==
  SelectSeq(p, LAMBDA c : c # ".")

\* the modification time a file gets from a write at run time
Now ==
  [sec |-> 2, nsec |-> 2]

ZeroStat ==
  [size |-> 0, sec |-> 0, nsec |-> 0]

StatOf(file) ==
  [size |-> Len(file.data), sec |-> file.sec, nsec |-> file.nsec]

Prefix(s, n) ==
  SubSeq(s, 1, n)

Min(a, b) ==
  IF a < b THEN a ELSE b

VARIABLES
  dirs,       \* the directories: a set of resolved paths
  files,      \* the regular files: resolved path -> [data, sec, nsec]
  job,        \* main's parsed parameters and flags
  pc,         \* where the program is
  iErr,       \* the error code of the running call chain
  stack,      \* TimedCopy's activation records, innermost last
  call,       \* the arguments of the TimedCopy call being entered
  tcf,        \* TimedCopyFile's locals
  fc,         \* FilenameChecksum's locals
  kc,         \* KeyboardCheck's locals
  g,          \* the global variables
  sys,        \* the mutating system calls made so far in this run
  echo,       \* the lines printed so far in this run
  faults,     \* failures injected so far
  keys,       \* keys pressed so far
  run,        \* 1 in the first run, 2 in the re-run
  start,      \* the file system and the counts when the current run started
  polled,     \* KeyboardCheck has polled since readdir last returned an entry
              \* other than . and ..
  others,     \* what is neither directory nor regular file: resolved path
              \* -> d_type
  timing      \* the clock around the copy loop's last write, and what the
              \* throttle made of it

vars ==
  <<dirs, files, job, pc, iErr, stack, call, tcf, fc, kc, g, sys, echo,
    faults, keys, run, start, polled, others, timing>>

DirectoryExist(p) ==
  Canon(p) \in dirs

FilenameExist(p) ==
  Canon(p) \in DOMAIN files

\* FilenameExist's stat buffer as TimedCopyFile uses it
FileStat(p) ==
  IF FilenameExist(p) THEN StatOf(files[Canon(p)]) ELSE ZeroStat

Unlinked(fl, p) ==
  [q \in (DOMAIN fl) \ {Canon(p)} |-> fl[q]]

Stored(fl, p, file) ==
  [q \in (DOMAIN fl) \cup {Canon(p)} |-> IF q = Canon(p) THEN file ELSE fl[q]]

Parent(p) ==
  Prefix(p, Len(p) - 1)

\* a path whose parent directory exists and that names nothing yet, or a file
CanCreate(p) ==
  /\ Canon(p) # <<>>
  /\ Parent(Canon(p)) \in dirs
  /\ Canon(p) \notin dirs

Sys(op, p, ok, why) ==
  [op |-> op, path |-> p, ok |-> ok, why |-> why]

FaultLeft ==
  faults < MaxFaults

(* ------------------------------- globals ------------------------------ *)
NoGuard ==
  <<"none">>

GlobalInit ==
  [giSt |-> NoGuard, giFileCount |-> 0, giPauseAfterVerif |-> FALSE,
   giCopyByteCount |-> 0, giTotalByteCount |-> 0,
   giNanoFastest |-> 0, giNanoPrev |-> 0]

TcfInit ==
  [src |-> <<>>, dst |-> <<>>, iExistSource |-> FALSE, iExistDest |-> FALSE,
   sStatSource |-> ZeroStat, sStatDest |-> ZeroStat,
   iSourceChecksum |-> {}, iDestChecksum |-> {}, off |-> 0, iRead |-> 0,
   opened |-> FALSE]

FcInit ==
  [path |-> <<>>, off |-> 0, iRead |-> 0, cs |-> {}, ret |-> "none"]

KcInit ==
  [iPause |-> FALSE, i |-> "none", ret |-> "none"]

CallInit ==
  [src |-> <<>>, srcFile |-> "", dst |-> <<>>, dstFile |-> ""]

\* what the clock did around the last write of the copy loop: for the query
\* before and the one after the write, whether clock_gettime succeeded, the
\* time it then was (nanoseconds) and what NanoTime returned; the delay asked
\* of nanosleep; the lowest giNanoPrev recorded in the run; the files ended
NoReading ==
  [ok |-> TRUE, now |-> 0, iTime |-> 0]

\* no write was timed yet
TimingInit ==
  [writes |-> 0, files |-> 0, before |-> NoReading, after |-> NoReading,
   iNano |-> 0, least |-> 0]


(* ---------------------------- initial states -------------------------- *)
\* file contents: per length, all zero bytes (checksum 0) and 1,0,1,...;
\* and the bytes 1, 2, whose checksum is 0 while that of the first byte
\* alone is not
Zero(n) ==
  [i \in 1..n |-> 0]

Alt(n) ==
  [i \in 1..n |-> i % 2]

Cancelling ==
  <<1, 2>>

Datas ==
  {Zero(n) : n \in 0..MaxLen} \cup {Alt(n) : n \in 0..MaxLen}
  \cup {Cancelling}

File(d, s, ns) ==
  [data |-> d, sec |-> s, nsec |-> ns]

\* the source file of a single-file job
SourceFiles ==
  {File(d, t, t) : d \in Datas, t \in {0, 1}}

\* what the destination may hold for source file f: nothing (a one-element
\* sequence holds a file), the same file, or a file that differs in one
\* dimension: seconds, nanoseconds, content, size
DestFiles(f) ==
  {<<>>, <<f>>, <<File(f.data, 1 - f.sec, f.nsec)>>,
   <<File(f.data, f.sec, 1 - f.nsec)>>}
  \cup {<<File(d, f.sec, f.nsec)>> : d \in {x \in Datas : Len(x) = Len(f.data)}}
  \cup {<<File(Prefix(f.data, Len(f.data) - 1), f.sec, f.nsec)>> :
          x \in {1} \cap 1..Len(f.data)}

\* a pointer main has not set
NULL ==
  <<"NULL">>

\* the arguments of the command line: an option, or a path
Flag(s) ==
  [flag |-> s, path |-> <<>>]

Arg(p) ==
  [flag |-> "", path |-> p]

\* main's variables before the first argument is parsed
Command(argv) ==
  [argv |-> argv, i |-> 1, iMode |-> TCPY_MODE_COPY, giTestRun |-> FALSE,
   giFaster |-> FALSE, pSourceDir |-> NULL, pSourceFile |-> "",
   pDestDir |-> NULL, pDestFile |-> ""]

ModeFlag(m) ==
  IF m = TCPY_MODE_DEL THEN <<Flag("-del")>>
  ELSE IF m = TCPY_MODE_MIRROR THEN <<Flag("-mir")>>
  ELSE <<>>

\* tcpy [-del|-mir] [-t] <source> <destination>, the source being the file
\* sf of sd (the directory sd if sf is empty), and so the destination
Job(m, t, sd, sf, dd, df) ==
  Command(ModeFlag(m) \o (IF t THEN <<Flag("-t")>> ELSE <<>>)
          \o <<Arg(IF sf = "" THEN sd ELSE sd \o <<sf>>),
               Arg(IF df = "" THEN dd ELSE dd \o <<df>>)>>)

Modes ==
  {TCPY_MODE_COPY, TCPY_MODE_DEL, TCPY_MODE_MIRROR}

FileAt(p, f) ==
  [q \in {p} |-> f]

\* tcpy [-del|-mir] [-t] s/f d      with d/f absent or present
InitFileJobs ==
  UNION {{[dirs |-> {<<>>, <<"s">>, <<"d">>},
           files |-> FileAt(<<"s", "f">>, f)
                     @@ (IF df = <<>> THEN <<>> ELSE FileAt(<<"d", "f">>, df[1])),
           job |-> Job(m, t, <<"s">>, "f", <<"d">>, "")] :
            df \in DestFiles(f), m \in Modes, t \in BOOLEAN} :
         f \in SourceFiles}

InitWorld(w) ==
  /\ dirs = w.dirs
  /\ files = w.files
  /\ job = w.job
  /\ pc = "parse"
  /\ iErr = 0
  /\ stack = <<>>
  /\ call = CallInit
  /\ tcf = TcfInit
  /\ fc = FcInit
  /\ kc = KcInit
  /\ g = GlobalInit
  /\ sys = <<>>
  /\ echo = <<>>
  /\ faults = 0
  /\ keys = 0
  /\ run = 1
  /\ start = [dirs |-> w.dirs, files |-> w.files, faults |-> 0, keys |-> 0]
  /\ polled = TRUE
  /\ others = IF "others" \in DOMAIN w THEN w.others ELSE <<>>
  /\ timing = TimingInit


(* -------------------------------- main -------------------------------- *)
Top ==
  stack[Len(stack)]

Line(kind, a, b, diff, delta) ==
  [kind |-> kind, a |-> a, b |-> b, diff |-> diff, delta |-> delta]

Frame(c) ==
  [src |-> c.src, srcFile |-> c.srcFile, dst |-> c.dst, dstFile |-> c.dstFile,
   todo |-> {}, seen |-> {}, phase |-> "enter"]

\* DirectoryValidate(szPathname, NULL) on the state st = [dirs, sys, echo,
\* err, n]: the missing ancestors first, then mkdir of the path itself; the
\* k-th mkdir of the call fails (k = 0: none is made to fail)
\* a test that never finds the directory
ValidDirectory_Never(p, ds) ==
  FALSE

\* DirectoryExist(szPathname) as DirectoryValidate asks it, ds being the
\* directories at that time
ValidDirectory(p, ds) ==
  Canon(p) \in ds

RECURSIVE DirectoryValidate(_, _, _)
DirectoryValidate(p, st, k) ==
  IF Len(p) = 0 \/ ValidDirectory(p, st.dirs) THEN st
  ELSE LET st1 == IF Len(p) > 1 THEN DirectoryValidate(Parent(p), st, k)
                  ELSE st
           ok == /\ st1.n + 1 # k
                 /\ Canon(p) # <<>>
                 /\ Parent(Canon(p)) \in st1.dirs
                 /\ Canon(p) \notin st1.dirs
                 /\ Canon(p) \notin DOMAIN files
                 /\ Canon(p) \notin DOMAIN others
       IN  IF st1.err # 0 THEN st1
           ELSE [dirs |-> IF ok THEN st1.dirs \cup {Canon(p)} ELSE st1.dirs,
                 sys |-> Append(st1.sys, Sys("mkdir", p, ok, "validate")),
                 echo |-> Append(st1.echo, Line("mkdir", p, <<>>, {}, 0)),
                 err |-> IF ok THEN 0 ELSE ERROR_TCPY,
                 n |-> st1.n + 1]

Validated(p, k) ==
  DirectoryValidate(p, [dirs |-> dirs, sys |-> sys, echo |-> echo,
                        err |-> 0, n |-> 0], k)

\* the mkdir calls that may be made to fail
MkdirFaults ==
  IF FaultLeft THEN {0, 1} ELSE {0}

\* FilenameExist is true of a regular file only, DirectoryExist of a
\* directory only; the model's paths are relative, and a path of one name
\* has no '/'
SplitPath(p) ==
  [dir |-> IF Len(p) > 1 THEN Parent(p) ELSE <<".">>, file |-> p[Len(p)]]

\* the names of the model that begin with '-' and are no option
DashNames ==
  {"-q"}

Dash(p) ==
  p[1] \in DashNames

\* the directory that main validates for the destination argument a: none
\* (the empty path) unless a names nothing that exists
ValidatedFor(a) ==
  IF \/ a.flag # "" \/ job.pSourceDir = NULL
     \/ FilenameExist(a.path) \/ DirectoryExist(a.path) \/ Dash(a.path)
    THEN <<>>
  ELSE IF job.pSourceFile = "" THEN a.path
  ELSE IF Len(a.path) > 1 THEN Parent(a.path)
  ELSE <<>>

\* main's variables after the argument a is parsed without error
Parsed(a) ==
  LET sp == SplitPath(a.path)
  IN  IF a.flag = "-del" THEN [job EXCEPT !.iMode = TCPY_MODE_DEL]
      ELSE IF a.flag = "-mir" THEN [job EXCEPT !.iMode = TCPY_MODE_MIRROR]
      ELSE IF a.flag = "-f" THEN [job EXCEPT !.giFaster = TRUE]
      ELSE IF a.flag = "-t" THEN [job EXCEPT !.giTestRun = TRUE]
      ELSE IF a.flag # "" THEN job
      ELSE IF job.pSourceDir = NULL
        THEN IF FilenameExist(a.path)
               THEN [job EXCEPT !.pSourceDir = sp.dir, !.pSourceFile = sp.file]
               ELSE [job EXCEPT !.pSourceDir = a.path, !.pSourceFile = ""]
      ELSE IF DirectoryExist(a.path) \/ job.pSourceFile = ""
        THEN [job EXCEPT !.pDestDir = a.path, !.pDestFile = ""]
      ELSE [job EXCEPT !.pDestDir = sp.dir, !.pDestFile = sp.file]

\* the error of the argument a, err being what DirectoryValidate returned
ArgumentError(a, err) ==
  IF a.flag \in {"-del", "-mir"}
    THEN (IF job.iMode # 0 THEN ERROR_TCPY_USAGE ELSE 0)
  ELSE IF a.flag = "-sync"
    THEN (IF job.iMode # 0 THEN ERROR_TCPY_USAGE ELSE ERROR_TCPY)
  ELSE IF a.flag # "" THEN 0
  ELSE IF job.pSourceDir = NULL
    THEN (IF FilenameExist(a.path) \/ DirectoryExist(a.path) THEN 0
          ELSE ERROR_TCPY_USAGE)
  ELSE IF FilenameExist(a.path)
    THEN (IF job.pSourceFile # "" THEN 0 ELSE ERROR_TCPY_USAGE)
  ELSE IF DirectoryExist(a.path) THEN 0
  ELSE IF Dash(a.path) THEN ERROR_TCPY_USAGE
  ELSE err

\* one iteration of the loop over the command's arguments (of which there
\* are one to five), and the loop's condition: the next argument, the end
\* of the parsing, or the error, which skips all that follows in main but
\* the report
MainArgument ==
  /\ pc = "parse"
  /\ \E k \in MkdirFaults :
       LET a == job.argv[job.i]
           v == Validated(ValidatedFor(a), k)
           err == ArgumentError(a, v.err)
       IN  /\ k # 0 => v.n >= k
           /\ faults' = IF k # 0 THEN faults + 1 ELSE faults
           /\ dirs' = v.dirs
           /\ sys' = v.sys
           /\ echo' = v.echo
           /\ iErr' = err
           /\ job' = [(IF err = 0 THEN Parsed(a) ELSE job) EXCEPT !.i = job.i + 1]
           /\ pc' = IF err # 0 THEN "done"
                    ELSE IF job.i < Len(job.argv) THEN "parse"
                    ELSE "main"
  /\ UNCHANGED <<others, timing, files, stack, call, tcf, fc, kc, g, keys, run, start, polled>>

\* main after the parameters are parsed: the usage checks (a source is
\* needed, and a file goes with neither -mir nor -sync), the default
\* destination, the default destination file name, the call of TimedCopy
Main ==
  /\ pc = "main"
  /\ LET dd == IF job.pDestDir = NULL THEN <<".">> ELSE job.pDestDir
         df == IF job.pSourceFile # "" /\ job.pDestFile = ""
                 THEN job.pSourceFile ELSE job.pDestFile
     IN  IF \/ job.pSourceDir = NULL
            \/ job.pSourceFile # "" /\ job.iMode > TCPY_MODE_DEL
           THEN /\ iErr' = ERROR_TCPY_USAGE
                /\ pc' = "done"
                /\ UNCHANGED <<call, job>>
           ELSE /\ iErr' = 0
                /\ pc' = "tc_enter"
                /\ job' = [job EXCEPT !.pDestDir = dd, !.pDestFile = df]
                /\ call' = [src |-> job.pSourceDir, srcFile |-> job.pSourceFile,
                            dst |-> dd, dstFile |-> df]
  /\ UNCHANGED <<others, timing, dirs, files, stack, tcf, fc, kc, g, sys, echo, faults,
                 keys, run, start, polled>>

(* ------------------------------ TimedCopy ----------------------------- *)
\* readdir's entries of a directory: ".", ".." and one per file, directory
\* and other thing, with the d_type of each
Entries(d) ==
  {[name |-> ".", type |-> DT_DIR], [name |-> "..", type |-> DT_DIR]}
  \cup {[name |-> q[Len(q)], type |-> DT_DIR] :
          q \in {x \in dirs : x # <<>> /\ Parent(x) = Canon(d)}}
  \cup {[name |-> q[Len(q)], type |-> DT_REG] :
          q \in {x \in DOMAIN files : Parent(x) = Canon(d)}}
  \cup {[name |-> q[Len(q)], type |-> others[q]] :
          q \in {x \in DOMAIN others : Parent(x) = Canon(d)}}

\* what readdir may return next from the directory d of the frame fr: an
\* entry that was there at opendir and was not returned yet, or one that
\* was added since (whether readdir returns such an entry is unspecified)
Readable(fr, d) ==
  fr.todo \cup (Entries(d) \ (fr.todo \cup fr.seen))

\* the frame after readdir returned e
Read(fr, e) ==
  [fr EXCEPT !.todo = fr.todo \ {e}, !.seen = fr.seen \cup {e}]

StartFile(src, dst) ==
  [TcfInit EXCEPT !.src = src, !.dst = dst]

\* a guard that never sees the destination root
Circular_Never(p) ==
  FALSE

\* the source directory is the recorded destination root
Circular(p) ==
  DirectoryExist(p) /\ Canon(p) = g.giSt

\* a guard that every call takes for unset
GuardUnset_Always ==
  TRUE

\* !(giSt_dev || giSt_ino): no destination directory was recorded yet
GuardUnset ==
  g.giSt = NoGuard

\* TimedCopy from its entry to the call of TimedCopyFile, to opendir, or to
\* the error it returns at once
TimedCopyEnter ==
  /\ pc = "tc_enter"
  /\ LET c == call
         e1 == IF DirectoryExist(c.src)
                 THEN (IF Circular(c.src) THEN ERROR_TCPY_CIRC ELSE 0)
                 ELSE ERROR_TCPY_USAGE
         e2 == IF e1 # 0 THEN e1
               ELSE IF DirectoryExist(c.dst) THEN 0 ELSE ERROR_TCPY_USAGE
         setGuard == e1 = 0 /\ DirectoryExist(c.dst) /\ GuardUnset
     IN  IF c.src # c.dst
           THEN /\ g' = IF setGuard THEN [g EXCEPT !.giSt = Canon(c.dst)] ELSE g
                /\ iErr' = e2
                /\ IF e2 # 0
                     THEN /\ stack' = Append(stack, Frame(c))
                          /\ pc' = "tc_ret"
                          /\ tcf' = tcf
                     ELSE IF c.srcFile # ""
                       THEN /\ stack' = Append(stack, Frame(c))
                            /\ pc' = "tcf_probe"
                            /\ tcf' = StartFile(c.src \o <<c.srcFile>>,
                                                c.dst \o <<c.dstFile>>)
                       ELSE /\ stack' = Append(stack,
                                 [Frame(c) EXCEPT !.todo = Entries(c.src),
                                                  !.phase = "walk"])
                            /\ pc' = "tc_walk"
                            /\ tcf' = tcf
           ELSE /\ g' = g
                /\ stack' = Append(stack, Frame(c))
                /\ IF c.srcFile # "" /\ c.srcFile # c.dstFile
                     THEN /\ iErr' = 0
                          /\ pc' = "tcf_probe"
                          /\ tcf' = StartFile(c.src \o <<c.srcFile>>,
                                              c.dst \o <<c.dstFile>>)
                     ELSE /\ iErr' = ERROR_TCPY
                          /\ pc' = "tc_ret"
                          /\ tcf' = tcf
  /\ UNCHANGED <<others, timing, dirs, files, job, call, fc, kc, sys, echo, faults, keys,
                 run, start, polled>>

\* TimedCopy frees its buffers and returns iErr to its caller: the walk of
\* the parent directory, or main
TimedCopyReturn ==
  /\ pc = "tc_ret"
  /\ stack' = Prefix(stack, Len(stack) - 1)
  /\ pc' = IF Len(stack) = 1 THEN "done" ELSE "tc_walk"
  /\ UNCHANGED <<others, timing, dirs, files, job, iErr, call, tcf, fc, kc, g, sys, echo,
                 faults, keys, run, start, polled>>


\* (d_type & mask) == mask
HasType(t, mask) ==
  Bits(mask) \subseteq Bits(t)

SetTop(fr) ==
  [stack EXCEPT ![Len(stack)] = fr]

\* a walk that goes on after an error
WalkContinues_Always ==
  TRUE

\* the second half of the readdir loop's condition: no error so far
WalkContinues ==
  iErr = 0

\* one iteration of the readdir loop over the source directory, for the
\* entry readdir returns.  The entries are those of the directory at
\* opendir, and possibly those added since, in any order.
TimedCopyReaddir ==
  /\ pc = "tc_walk"
  /\ WalkContinues
  /\ \E e \in Readable(Top, Top.src), k \in MkdirFaults :
       LET fr == Top
           src == fr.src \o <<e.name>>
           dst == fr.dst \o <<e.name>>
           v == Validated(dst, k)
           isDir == e.name \notin {".", ".."} /\ HasType(e.type, DT_DIR)
           isReg == e.name \notin {".", ".."} /\ ~HasType(e.type, DT_DIR)
                    /\ HasType(e.type, DT_REG)
       IN  /\ k # 0 => (isDir /\ v.n >= k)
           /\ stack' = SetTop(Read(fr, e))
           /\ faults' = IF k # 0 THEN faults + 1 ELSE faults
           /\ IF isDir
                THEN /\ dirs' = v.dirs
                     /\ sys' = v.sys
                     /\ echo' = v.echo
                     /\ iErr' = v.err
                     /\ pc' = IF v.err = 0 THEN "tc_enter" ELSE "tc_walk"
                     /\ call' = [src |-> src, srcFile |-> "",
                                 dst |-> dst, dstFile |-> ""]
                     /\ tcf' = tcf
                ELSE /\ UNCHANGED <<dirs, sys, echo, iErr, call>>
                     /\ pc' = IF isReg THEN "tcf_probe" ELSE "tc_walk"
                     /\ tcf' = IF isReg THEN StartFile(src, dst) ELSE tcf
           /\ polled' = IF e.name \in {".", ".."} THEN polled ELSE FALSE
  /\ UNCHANGED <<others, timing, files, job, fc, kc, g, keys, run, start>>

\* the readdir loop ends (no entry left, or an error): closedir, then the
\* mirror cleanup opens the destination directory, or TimedCopy returns
TimedCopyWalkEnd ==
  /\ pc = "tc_walk"
  /\ ~WalkContinues \/ Top.todo = {}
  /\ IF iErr = 0 /\ job.iMode = TCPY_MODE_MIRROR
       THEN /\ stack' = SetTop([Top EXCEPT !.todo = Entries(Top.dst),
                                           !.seen = {},
                                           !.phase = "mirror"])
            /\ pc' = "tc_mirror"
       ELSE /\ stack' = stack
            /\ pc' = "tc_ret"
  /\ UNCHANGED <<others, timing, dirs, files, job, iErr, call, tcf, fc, kc, g, sys, echo,
                 faults, keys, run, start, polled>>

\* the unlink calls that may be made to fail
UnlinkFaults ==
  IF FaultLeft THEN {FALSE, TRUE} ELSE {FALSE}

\* a cleanup that deletes every regular file of the destination directory
MirrorDeletes_Any(e, src) ==
  HasType(e.type, DT_REG)

\* the cleanup deletes a destination entry: a regular file that the source
\* directory does not hold
MirrorDeletes(e, src) ==
  HasType(e.type, DT_REG) /\ ~FilenameExist(src)

\* the cleanup's unlink is called
MirrorUnlinks(del) ==
  del /\ ~job.giTestRun

\* one iteration of the mirror cleanup loop over the destination directory
TimedCopyMirror ==
  /\ pc = "tc_mirror"
  /\ \E e \in Readable(Top, Top.dst), fail \in UnlinkFaults :
       LET fr == Top
           src == fr.src \o <<e.name>>
           dst == fr.dst \o <<e.name>>
           del == MirrorDeletes(e, src)
           call_ == MirrorUnlinks(del)
           ok == call_ /\ FilenameExist(dst) /\ ~fail
       IN  /\ fail => (call_ /\ FilenameExist(dst))
           /\ stack' = SetTop(Read(fr, e))
           /\ faults' = IF fail THEN faults + 1 ELSE faults
           /\ echo' = IF del THEN Append(echo, Line("Delete", dst, <<>>, {}, 0))
                      ELSE echo
           /\ sys' = IF call_ THEN Append(sys, Sys("unlink", dst, ok, "mirror"))
                     ELSE sys
           /\ files' = IF ok THEN Unlinked(files, dst) ELSE files
           /\ polled' = IF e.name \in {".", ".."} THEN polled ELSE FALSE
  /\ UNCHANGED <<others, timing, dirs, job, pc, iErr, call, tcf, fc, kc, g, keys, run, start>>

TimedCopyMirrorEnd ==
  /\ pc = "tc_mirror"
  /\ Top.todo = {}
  /\ pc' = "tc_ret"
  /\ UNCHANGED <<others, timing, dirs, files, job, iErr, stack, call, tcf, fc, kc, g, sys,
                 echo, faults, keys, run, start, polled>>


(* ---------------------------- KeyboardCheck --------------------------- *)
\* what select and getchar deliver: no key, or one of the keys
Inputs ==
  IF keys < MaxKeys THEN {"none", "pause", "quit", "verif"}
  ELSE IF kc.iPause THEN {"none", "pause", "quit"}
  ELSE {"none"}

CallKeyboardCheck(iInducedPause, ret) ==
  [iPause |-> iInducedPause, i |-> "none", ret |-> ret]

\* a stop key that is reported as an operation error
KeyError_Operation(i) ==
  IF i = "quit" THEN ERROR_TCPY ELSE 0

\* the error code of the key read: ESC, q or Q stop the run
KeyError(i) ==
  IF i = "quit" THEN ERROR_TCPY_STOP ELSE 0

\* a 'v' key that pauses at once, like SPACE
KeyPause_AlsoVerif(i, pause) ==
  IF i \in {"pause", "verif"} THEN ~pause ELSE pause

\* iPause after the key read: SPACE, p or P toggle it, no other key does
KeyPause(i, pause) ==
  IF i = "pause" THEN ~pause ELSE pause

\* a loop that ends after its first iteration
Repolls_Never(err, pause) ==
  FALSE

\* the do-while loop's condition: no error, and paused
Repolls(err, pause) ==
  err = 0 /\ pause

\* one iteration of KeyboardCheck's do-while loop; it returns to its caller
\* when the loop ends
KeyboardCheck ==
  /\ pc = "kc"
  /\ \E in \in Inputs :
       LET pause == KeyPause(in, kc.iPause)
           err == KeyError(in)
       IN  /\ keys' = IF in = "none" \/ keys = MaxKeys THEN keys ELSE keys + 1
           /\ g' = IF in = "verif" THEN [g EXCEPT !.giPauseAfterVerif = TRUE]
                   ELSE g
           /\ kc' = [kc EXCEPT !.iPause = pause,
                                !.i = IF in = "none" THEN kc.i ELSE in]
           /\ IF Repolls(err, pause)
                THEN /\ pc' = "kc"
                     /\ iErr' = iErr
                ELSE /\ pc' = kc.ret
                     /\ iErr' = err
  /\ polled' = TRUE
  /\ UNCHANGED <<others, timing, dirs, files, job, stack, call, tcf, fc, sys, echo, faults,
                 run, start>>

(* --------------------------- FilenameChecksum ------------------------- *)
\* what read(fd, gpBigBuffer, LNBIGBUFFER) may return with avail bytes left:
\* the bytes asked for; or, as a fault, an error (-1) or fewer bytes
ReadOutcomes(avail) ==
  {[iRead |-> Min(LNBIGBUFFER, avail), fault |-> FALSE]}
  \cup {[iRead |-> n, fault |-> TRUE] :
          n \in {x \in ({-1} \cup 1..(Min(LNBIGBUFFER, avail) - 1)) : FaultLeft}}

\* open(path, O_RDONLY) of an existing file may be made to fail
OpenFaults ==
  IF FaultLeft THEN {FALSE, TRUE} ELSE {FALSE}

\* a buffer that always holds the first bytes of the file
Chunk_First(path, off, n) ==
  SubSeq(files[Canon(path)].data, 1, n)

\* gpBigBuffer after read() returned n bytes at the offset off
Chunk(path, off, n) ==
  SubSeq(files[Canon(path)].data, off + 1, off + n)

CallFilenameChecksum(path, ret) ==
  [path |-> path, off |-> 0, iRead |-> 0, cs |-> {}, ret |-> ret]

\* FilenameChecksum up to its loop: the checksum is zeroed, the file opened
FilenameChecksumOpen ==
  /\ pc = "fc_open"
  /\ \E fail \in OpenFaults :
       LET ok == FilenameExist(fc.path) /\ ~fail
       IN  /\ fail => FilenameExist(fc.path)
           /\ faults' = IF fail THEN faults + 1 ELSE faults
           /\ iErr' = IF ok THEN 0 ELSE ERROR_TCPY
           /\ pc' = IF ok THEN "fc_read" ELSE fc.ret
  /\ UNCHANGED <<others, timing, dirs, files, job, stack, call, tcf, fc, kc, g, sys, echo,
                 keys, run, start, polled>>

\* one iteration of the loop up to its call of KeyboardCheck
FilenameChecksumRead ==
  /\ pc = "fc_read"
  /\ \E r \in ReadOutcomes(Len(files[Canon(fc.path)].data) - fc.off) :
       /\ faults' = IF r.fault THEN faults + 1 ELSE faults
       /\ fc' = IF r.iRead > 0
                  THEN [fc EXCEPT !.iRead = r.iRead,
                                  !.off = fc.off + r.iRead,
                                  !.cs = ChecksumAdd(
                                           Chunk(fc.path, fc.off, r.iRead), fc.cs)]
                  ELSE [fc EXCEPT !.iRead = r.iRead]
  /\ kc' = CallKeyboardCheck(FALSE, "fc_loop")
  /\ pc' = "kc"
  /\ UNCHANGED <<others, timing, dirs, files, job, iErr, stack, call, tcf, g, sys, echo,
                 keys, run, start, polled>>

\* the loop's condition, and the close and return when it ends
FilenameChecksumLoop ==
  /\ pc = "fc_loop"
  /\ pc' = IF fc.iRead = LNBIGBUFFER /\ iErr = 0 THEN "fc_read" ELSE fc.ret
  /\ UNCHANGED <<others, timing, dirs, files, job, iErr, stack, call, tcf, fc, kc, g, sys,
                 echo, faults, keys, run, start, polled>>


(* ---------------------------- TimedCopyFile --------------------------- *)
\* the condition under which the source and the destination are compared
\* by checksum
SameSize(t) ==
  /\ t.sStatSource.size # 0
  /\ t.sStatDest.size # 0
  /\ t.sStatSource.size = t.sStatDest.size

\* a copy condition whose checksum test is == instead of !=
Different_SameChecksum(t) ==
  \/ t.sStatSource.size # t.sStatDest.size
  \/ t.sStatSource.sec # t.sStatDest.sec
  \/ t.sStatSource.nsec # t.sStatDest.nsec
  \/ t.iSourceChecksum = t.iDestChecksum

\* the condition under which the file is copied
Different(t) ==
  \/ t.sStatSource.size # t.sStatDest.size
  \/ t.sStatSource.sec # t.sStatDest.sec
  \/ t.sStatSource.nsec # t.sStatDest.nsec
  \/ t.iSourceChecksum # t.iDestChecksum

\* a deletion line that never names the nanoseconds
DiffNamed_NoNsec(t) ==
  {d \in {"bytes", "sec", "chk"} :
     \/ d = "bytes" /\ t.sStatSource.size # t.sStatDest.size
     \/ d = "sec" /\ t.sStatSource.sec # t.sStatDest.sec
     \/ d = "chk" /\ t.iSourceChecksum # t.iDestChecksum}

\* the dimensions the "Delete ... (diff ...)" line names
DiffNamed(t) ==
  {d \in {"bytes", "sec", "nsec", "chk"} :
     \/ d = "bytes" /\ t.sStatSource.size # t.sStatDest.size
     \/ d = "sec" /\ t.sStatSource.sec # t.sStatDest.sec
     \/ d = "nsec" /\ t.sStatSource.nsec # t.sStatDest.nsec
     \/ d = "chk" /\ t.iSourceChecksum # t.iDestChecksum}

\* a compare step that reads the files in a dry run too
Compares_InDryRun(cmp) ==
  cmp

\* the checksums of the compare step are computed: not in a dry run
Compares(cmp) ==
  cmp /\ ~job.giTestRun

\* both files are probed; equal nonzero sizes start the checksum of the source
TimedCopyFileProbe ==
  /\ pc = "tcf_probe"
  /\ LET exS == FilenameExist(tcf.src)
         t == [tcf EXCEPT !.iExistSource = exS,
                          !.iExistDest = FilenameExist(tcf.dst),
                          !.sStatSource = FileStat(tcf.src),
                          !.sStatDest = FileStat(tcf.dst)]
         cmp == exS /\ SameSize(t)
     IN  /\ tcf' = t
         /\ iErr' = IF exS THEN 0 ELSE ERROR_TCPY
         /\ echo' = IF cmp THEN Append(echo, Line("Verify", t.src, t.dst, {}, 0))
                    ELSE echo
         /\ IF Compares(cmp)
              THEN /\ pc' = "fc_open"
                   /\ fc' = CallFilenameChecksum(t.src, "tcf_cmp1")
              ELSE /\ pc' = "tcf_decide"
                   /\ fc' = fc
  /\ UNCHANGED <<others, timing, dirs, files, job, stack, call, kc, g, sys, faults, keys,
                 run, start, polled>>

\* the source's checksum is back; without error the destination's is next
TimedCopyFileCompareSource ==
  /\ pc = "tcf_cmp1"
  /\ tcf' = [tcf EXCEPT !.iSourceChecksum = fc.cs]
  /\ IF iErr = 0
       THEN /\ pc' = "fc_open"
            /\ fc' = CallFilenameChecksum(tcf.dst, "tcf_cmp2")
       ELSE /\ pc' = "tcf_decide"
            /\ fc' = fc
  /\ UNCHANGED <<others, timing, dirs, files, job, iErr, stack, call, kc, g, sys, echo,
                 faults, keys, run, start, polled>>

TimedCopyFileCompareDest ==
  /\ pc = "tcf_cmp2"
  /\ tcf' = [tcf EXCEPT !.iDestChecksum = fc.cs]
  /\ pc' = "tcf_decide"
  /\ UNCHANGED <<others, timing, dirs, files, job, iErr, stack, call, fc, kc, g, sys, echo,
                 faults, keys, run, start, polled>>

\* the calls of the delete-and-open step that may be made to fail
DecideFaults ==
  IF FaultLeft THEN {"none", "unlink", "opensrc", "opendst"} ELSE {"none"}

\* the decision to copy; the stale destination is deleted; both files are
\* opened (the destination is created empty)
TimedCopyFileDecide ==
  /\ pc = "tcf_decide"
  /\ \E fl \in DecideFaults :
       LET diff == iErr = 0 /\ Different(tcf)
           doUnlink == diff /\ tcf.iExistDest /\ ~job.giTestRun
           unlinkOk == FilenameExist(tcf.dst) /\ fl # "unlink"
           e1 == IF doUnlink /\ ~unlinkOk THEN ERROR_TCPY ELSE iErr
           files1 == IF doUnlink /\ unlinkOk THEN Unlinked(files, tcf.dst)
                     ELSE files
           doCopy == diff /\ e1 = 0
           doOpen == doCopy /\ ~job.giTestRun
           srcThere == Canon(tcf.src) \in DOMAIN files1
           srcOk == srcThere /\ fl # "opensrc"
           dstOk == CanCreate(tcf.dst) /\ fl # "opendst"
           e2 == IF doOpen /\ ~(srcOk /\ dstOk) THEN ERROR_TCPY ELSE e1
           created == doOpen /\ srcOk /\ dstOk
           sys1 == IF doUnlink
                     THEN Append(sys, Sys("unlink", tcf.dst, unlinkOk, "stale"))
                     ELSE sys
           echo1 == IF diff /\ tcf.iExistDest
                      THEN Append(echo, Line("Delete", tcf.dst, <<>>,
                                   DiffNamed(tcf),
                                   tcf.sStatDest.size - tcf.sStatSource.size))
                      ELSE echo
       IN  /\ fl = "unlink" => (doUnlink /\ FilenameExist(tcf.dst))
           /\ fl = "opensrc" => (doOpen /\ srcThere)
           /\ fl = "opendst" => (doOpen /\ srcThere /\ CanCreate(tcf.dst))
           /\ faults' = IF fl # "none" THEN faults + 1 ELSE faults
           /\ iErr' = e2
           /\ files' = IF created
                         THEN Stored(files1, tcf.dst, File(<<>>, Now.sec, Now.nsec))
                         ELSE files1
           /\ sys' = IF doOpen /\ srcOk
                       THEN Append(sys1, Sys("creat", tcf.dst, dstOk, "copy"))
                       ELSE sys1
           /\ echo' = IF doCopy
                        THEN Append(echo1, Line("Copy", tcf.src, tcf.dst, {}, 0))
                        ELSE echo1
           /\ tcf' = IF doCopy
                       THEN [tcf EXCEPT !.iDestChecksum = {}, !.opened = created]
                       ELSE tcf
           /\ pc' = IF ~diff THEN "tcf_srcdel"
                    ELSE IF created THEN "tcf_copy"
                    ELSE IF doOpen THEN "tcf_after"
                    ELSE "tcf_verify"
  /\ UNCHANGED <<others, timing, dirs, job, stack, call, fc, kc, g, keys, run, start, polled>>

\* what write(fd, gpBigBuffer, n) may return: n; or, as a fault, one less
WriteOutcomes(n, readFault) ==
  {[iWrite |-> n, fault |-> FALSE]}
  \cup {[iWrite |-> n - 1, fault |-> TRUE] :
          x \in {y \in {1} : n > 0 /\ faults + (IF readFault THEN 2 ELSE 1)
                                         <= MaxFaults}}

Written(fl, p, bytes) ==
  Stored(fl, p, File(fl[Canon(p)].data \o bytes, Now.sec, Now.nsec))

\* a copy loop that never polls the keyboard
CopyPolls_Never(err) ==
  FALSE

\* the copy loop polls the keyboard unless the write failed
CopyPolls(err) ==
  err = 0

\* one iteration of the copy loop up to its call of KeyboardCheck: a read,
\* the byte counters, the checksum, the write. The clock works here, so both
\* readings of NanoTime are 0 and giNanoPrev and giNanoFastest keep the value
\* 0; ThrottledWrite follows them when it does not.
TimedCopyFileCopy ==
  /\ pc = "tcf_copy"
  /\ \E r \in ReadOutcomes(Len(files[Canon(tcf.src)].data) - tcf.off) :
       \E w \in WriteOutcomes(r.iRead, r.fault) :
         LET buf == Chunk(tcf.src, tcf.off, r.iRead)
             err == IF r.iRead > 0 /\ w.iWrite # r.iRead THEN ERROR_TCPY ELSE 0
         IN  /\ faults' = faults + (IF r.fault THEN 1 ELSE 0)
                                 + (IF w.fault THEN 1 ELSE 0)
             /\ IF r.iRead > 0
                  THEN /\ tcf' = [tcf EXCEPT
                                    !.iRead = r.iRead,
                                    !.off = tcf.off + r.iRead,
                                    !.iDestChecksum =
                                       ChecksumAdd(buf, tcf.iDestChecksum)]
                       /\ g' = [g EXCEPT
                                  !.giCopyByteCount = g.giCopyByteCount + r.iRead,
                                  !.giTotalByteCount = g.giTotalByteCount + r.iRead]
                       /\ files' = Written(files, tcf.dst, Prefix(buf, w.iWrite))
                       /\ sys' = Append(sys, Sys("write", tcf.dst, ~w.fault, "copy"))
                  ELSE /\ tcf' = [tcf EXCEPT !.iRead = r.iRead]
                       /\ UNCHANGED <<g, files, sys>>
             /\ iErr' = err
             /\ IF CopyPolls(err)
                  THEN /\ pc' = "kc"
                       /\ kc' = CallKeyboardCheck(FALSE, "tcf_copyloop")
                  ELSE /\ pc' = "tcf_copyloop"
                       /\ kc' = kc
  /\ UNCHANGED <<others, timing, dirs, job, stack, call, fc, echo, keys, run, start, polled>>

TimedCopyFileCopyLoop ==
  /\ pc = "tcf_copyloop"
  /\ pc' = IF tcf.iRead = LNBIGBUFFER /\ iErr = 0 THEN "tcf_copy"
           ELSE "tcf_after"
  /\ UNCHANGED <<others, timing, dirs, files, job, iErr, stack, call, tcf, fc, kc, g, sys,
                 echo, faults, keys, run, start, polled>>


\* a call on an existing file that may be made to fail
CallFaults ==
  IF FaultLeft THEN {FALSE, TRUE} ELSE {FALSE}

Retimed(fl, p, st) ==
  Stored(fl, p, File(fl[Canon(p)].data, st.sec, st.nsec))

\* a cleanup that spares the destination of a copy the user stopped
CleansUp_NotOnStop(e) ==
  e # 0 /\ e # ERROR_TCPY_STOP

\* the destination of the copy phase is deleted: on any error
CleansUp(e) ==
  e # 0

\* after the copy loop: the files are closed, the running checksum is held
\* against the source's, a failed copy's destination is deleted, a good
\* one gets the source's modification time
TimedCopyFileAfterCopy ==
  /\ pc = "tcf_after"
  /\ \E fail \in CallFaults :
       LET bad == /\ iErr = 0
                  /\ tcf.iSourceChecksum # {}
                  /\ tcf.iSourceChecksum # tcf.iDestChecksum
           e1 == IF bad THEN ERROR_TCPY ELSE iErr
           adopt == iErr = 0 /\ tcf.iSourceChecksum = {}
           there == FilenameExist(tcf.dst)
           ok == there /\ ~fail
       IN  /\ fail => there
           /\ faults' = IF fail THEN faults + 1 ELSE faults
           /\ tcf' = IF adopt
                       THEN [tcf EXCEPT !.iSourceChecksum = tcf.iDestChecksum]
                       ELSE tcf
           /\ IF CleansUp(e1)
                THEN /\ iErr' = e1
                     /\ files' = IF ok THEN Unlinked(files, tcf.dst) ELSE files
                     /\ sys' = Append(sys, Sys("unlink", tcf.dst, ok, "failed"))
                ELSE IF e1 = 0
                  THEN /\ iErr' = IF ok THEN 0 ELSE ERROR_TCPY
                       /\ files' = IF ok
                                     THEN Retimed(files, tcf.dst, tcf.sStatSource)
                                   ELSE files
                       /\ sys' = Append(sys,
                                        Sys("utimensat", tcf.dst, ok, "retime"))
                  ELSE /\ fail = FALSE
                       /\ iErr' = e1
                       /\ UNCHANGED <<files, sys>>
  /\ pc' = "tcf_verify"
  /\ UNCHANGED <<others, timing, dirs, job, stack, call, fc, kc, g, echo, keys, run, start, polled>>

\* a destination that is read back after an error too
Reverifies_AfterError ==
  ~job.giTestRun

\* the destination is read back: no error so far, and no dry run
Reverifies ==
  iErr = 0 /\ ~job.giTestRun

\* the destination is read back for its checksum
TimedCopyFileVerify ==
  /\ pc = "tcf_verify"
  /\ echo' = IF iErr = 0 THEN Append(echo, Line("VerifyDest", tcf.dst, <<>>, {}, 0))
             ELSE echo
  /\ IF Reverifies
       THEN /\ pc' = "fc_open"
            /\ fc' = CallFilenameChecksum(tcf.dst, "tcf_verified")
       ELSE /\ pc' = "tcf_srcdel"
            /\ fc' = fc
  /\ UNCHANGED <<others, timing, dirs, files, job, iErr, stack, call, tcf, kc, g, sys,
                 faults, keys, run, start, polled>>

\* the checksum read back is held against the source's; a destination that
\* fails is deleted
TimedCopyFileVerified ==
  /\ pc = "tcf_verified"
  /\ \E fail \in CallFaults :
       LET bad == iErr = 0 /\ tcf.iSourceChecksum # fc.cs
           there == FilenameExist(tcf.dst)
           ok == there /\ ~fail
       IN  /\ fail => (bad /\ there)
           /\ faults' = IF fail THEN faults + 1 ELSE faults
           /\ tcf' = [tcf EXCEPT !.iDestChecksum = fc.cs]
           /\ iErr' = IF bad THEN ERROR_TCPY ELSE iErr
           /\ files' = IF bad /\ ok THEN Unlinked(files, tcf.dst) ELSE files
           /\ sys' = IF bad
                       THEN Append(sys, Sys("unlink", tcf.dst, ok, "verify"))
                       ELSE sys
  /\ pc' = "tcf_srcdel"
  /\ UNCHANGED <<others, timing, dirs, job, stack, call, fc, kc, g, echo, keys, run, start, polled>>

\* a Move mode whose unlink is called in a dry run too
SourceUnlinks_Always(del) ==
  del

\* Move mode's unlink of the source is called
SourceUnlinks(del) ==
  del /\ ~job.giTestRun

\* Move mode: the source is deleted
TimedCopyFileSourceDelete ==
  /\ pc = "tcf_srcdel"
  /\ \E fail \in CallFaults :
       LET del == iErr = 0 /\ job.iMode = TCPY_MODE_DEL
           call_ == SourceUnlinks(del)
           there == FilenameExist(tcf.src)
           ok == there /\ ~fail
       IN  /\ fail => (call_ /\ there)
           /\ faults' = IF fail THEN faults + 1 ELSE faults
           /\ echo' = IF del
                        THEN Append(echo, Line("DeleteSource", tcf.src, <<>>, {}, 0))
                        ELSE echo
           /\ iErr' = IF call_ /\ ~ok THEN ERROR_TCPY ELSE iErr
           /\ files' = IF call_ /\ ok THEN Unlinked(files, tcf.src) ELSE files
           /\ sys' = IF call_
                       THEN Append(sys, Sys("unlink", tcf.src, ok, "source"))
                       ELSE sys
  /\ pc' = "tcf_book"
  /\ UNCHANGED <<others, timing, dirs, job, stack, call, tcf, fc, kc, g, keys, run, start, polled>>

GIGA == 1073741824

\* the counters and the pauses after a file that went well
TimedCopyFileBookkeeping ==
  /\ pc = "tcf_book"
  /\ LET n == g.giFileCount + 1
     IN  IF iErr # 0
           THEN /\ pc' = "tcf_ret"
                /\ UNCHANGED <<g, kc>>
           ELSE IF g.giPauseAfterVerif
             THEN /\ g' = [g EXCEPT !.giCopyByteCount = 0, !.giFileCount = 0,
                                    !.giPauseAfterVerif = FALSE]
                  /\ kc' = CallKeyboardCheck(TRUE, "tcf_ret")
                  /\ pc' = "kc"
             ELSE /\ g' = IF n >= COPYCOUNT /\ ~job.giFaster
                            THEN [g EXCEPT !.giFileCount = 0]
                          ELSE IF g.giCopyByteCount > GIGA
                            THEN [g EXCEPT !.giFileCount = 0,
                                           !.giCopyByteCount = 0]
                          ELSE [g EXCEPT !.giFileCount = n]
                  /\ kc' = kc
                  /\ pc' = "tcf_ret"
  /\ UNCHANGED <<others, timing, dirs, files, job, iErr, stack, call, tcf, fc, sys, echo,
                 faults, keys, run, start, polled>>

\* TimedCopyFile returns iErr to TimedCopy: to the readdir loop, or to the
\* return of a single-file call
TimedCopyFileReturn ==
  /\ pc = "tcf_ret"
  /\ pc' = IF Top.srcFile # "" THEN "tc_ret" ELSE "tc_walk"
  /\ UNCHANGED <<others, timing, dirs, files, job, iErr, stack, call, tcf, fc, kc, g, sys,
                 echo, faults, keys, run, start, polled>>

(* ------------------------------- the run ------------------------------ *)
\* the same command is run again after a run that ended with "Done!"
Rerun ==
  /\ pc = "done"
  /\ iErr = 0
  /\ run < MaxRuns
  /\ run' = run + 1
  /\ pc' = "parse"
  /\ job' = Command(job.argv)
  /\ g' = GlobalInit
  /\ sys' = <<>>
  /\ echo' = <<>>
  /\ tcf' = TcfInit
  /\ fc' = FcInit
  /\ kc' = KcInit
  /\ call' = CallInit
  /\ start' = [dirs |-> dirs, files |-> files, faults |-> faults,
               keys |-> keys]
  /\ polled' = TRUE
  /\ UNCHANGED <<others, timing, dirs, files, iErr, stack, faults, keys>>

\* tcpy [-del|-mir] [-t] s/f <dest> with the destination in the source's
\* own directory: s/f itself, s/f spelled ./s/f, and s/g
InitSameDirJobs ==
  {[dirs |-> {<<>>, <<"s">>, <<"d">>},
    files |-> FileAt(<<"s", "f">>, f),
    job |-> Job(m, t, <<"s">>, "f", d[1], d[2])] :
     f \in SourceFiles, m \in Modes, t \in BOOLEAN,
     d \in {<< <<"s">>, "f" >>, << <<".", "s">>, "f" >>, << <<"s">>, "g" >>}}

\* the source tree of a directory job: s/f, s/x/g, and the empty s/x/y
TreeDirs ==
  {<<>>, <<"s">>, <<"s", "x">>, <<"s", "x", "y">>, <<"d">>}

TreeFiles ==
  FileAt(<<"s", "f">>, File(Alt(1), 1, 1))
  @@ FileAt(<<"s", "x", "g">>, File(Zero(LNBIGBUFFER), 1, 0))

\* what d may hold before the run: nothing; the finished copy; the finished
\* copy and files the source does not have
DestTrees ==
  {[dirs |-> {}, files |-> <<>>],
   [dirs |-> {<<"d", "x">>, <<"d", "x", "y">>},
    files |-> FileAt(<<"d", "f">>, File(Alt(1), 1, 1))
              @@ FileAt(<<"d", "x", "g">>, File(Zero(LNBIGBUFFER), 1, 0))],
   [dirs |-> {<<"d", "x">>},
    files |-> FileAt(<<"d", "f">>, File(Alt(1), 1, 1))
              @@ FileAt(<<"d", "h">>, File(Alt(1), 0, 0))
              @@ FileAt(<<"d", "x", "h">>, File(<<>>, 0, 0))]}

\* tcpy [-del|-mir] [-t] s d
InitTreeJobs ==
  {[dirs |-> TreeDirs \cup dt.dirs,
    files |-> TreeFiles @@ dt.files,
    job |-> Job(m, t, <<"s">>, "", <<"d">>, "")] :
     dt \in DestTrees, m \in Modes, t \in BOOLEAN}

\* tcpy [-del|-mir] [-t] s <dest> with the destination inside the source
\* tree (s/x, s/x/y), the source itself (s, ./s) or the directory that
\* holds the source (./)
InitNestedJobs ==
  {[dirs |-> TreeDirs,
    files |-> TreeFiles,
    job |-> Job(m, t, <<"s">>, "", d, "")] :
     m \in Modes, t \in BOOLEAN,
     d \in {<<"s", "x">>, <<"s", "x", "y">>, <<"s">>, <<".", "s">>, <<".">>}}

\* tcpy [-del|-mir] [-t] s ./ where s holds a directory of its own name:
\* the destination of s/s is s, so what the run copies from s/s/ lands in
\* the directory that the outer call is walking
InitHolderJobs ==
  {[dirs |-> {<<>>, <<"s">>, <<"s", "s">>, <<"s", "s", "t">>},
    files |-> <<>>,
    job |-> Job(m, t, <<"s">>, "", <<".">>, "")] :
     m \in Modes, t \in BOOLEAN}

\* the directory jobs whose destination is inside the source tree
InitInsideJobs ==
  {w \in InitNestedJobs :
     w.job.argv[Len(w.job.argv)].path \in {<<"s", "x">>, <<"s", "x", "y">>}}

\* the d_type of what is neither directory nor regular file: DT_FIFO,
\* DT_CHR, DT_BLK, DT_LNK, DT_SOCK, DT_WHT (dirent.h)
SpecialTypes ==
  {1, 2, 6, 10, 12, 14}

\* tcpy [-del|-mir] [-t] s d where s holds the file f and k, which is a
\* fifo, a device, a symbolic link to nothing, a socket or a whiteout, and
\* d holds nothing or a copy of f
InitSpecialJobs ==
  {[dirs |-> {<<>>, <<"s">>, <<"d">>},
    files |-> FileAt(<<"s", "f">>, File(Alt(1), 1, 1))
              @@ (IF there THEN FileAt(<<"d", "f">>, File(Alt(1), 1, 1))
                  ELSE <<>>),
    others |-> [q \in {<<"s", "k">>} |-> y],
    job |-> Job(m, t, <<"s">>, "", <<"d">>, "")] :
     y \in SpecialTypes, there \in BOOLEAN, m \in Modes, t \in BOOLEAN}

\* the orders of three arguments
Orders(a, b, c) ==
  {<<a, b, c>>, <<a, c, b>>, <<b, a, c>>, <<b, c, a>>, <<c, a, b>>, <<c, b, a>>}

\* tcpy with a mode (-del, -mir, -sync), a source (s/f, s) and a
\* destination (d, which exists; n and n/x, which do not) in every order;
\* and commands without a source, with two modes, with a destination -q
InitOrderJobs ==
  {[dirs |-> {<<>>, <<"s">>, <<"d">>},
    files |-> FileAt(<<"s", "f">>, File(Alt(1), 1, 1)),
    job |-> Command(argv)] :
     argv \in UNION {Orders(Flag(m), Arg(src), Arg(dst)) :
                       m \in {"-del", "-mir", "-sync"},
                       src \in {<<"s", "f">>, <<"s">>},
                       dst \in {<<"d">>, <<"n">>, <<"n", "x">>}}
               \cup {<<Flag("-t"), Flag("-f")>>,
                     <<Flag("-del"), Flag("-mir"), Arg(<<"s">>)>>,
                     <<Flag("-mir"), Flag("-sync"), Arg(<<"s">>)>>,
                     <<Arg(<<"s">>), Arg(<<"-q">>)>>,
                     <<Arg(<<"s">>), Arg(<<"s", "f">>)>>,
                     <<Flag("-f"), Arg(<<"s", "f">>)>>}}

Worlds ==
  InitFileJobs \cup InitSameDirJobs \cup InitTreeJobs \cup InitNestedJobs
  \cup InitHolderJobs \cup InitOrderJobs

Init ==
  \E w \in Worlds : InitWorld(w)

Next ==
  \/ MainArgument
  \/ Main
  \/ TimedCopyEnter
  \/ TimedCopyReaddir
  \/ TimedCopyWalkEnd
  \/ TimedCopyMirror
  \/ TimedCopyMirrorEnd
  \/ TimedCopyReturn
  \/ KeyboardCheck
  \/ FilenameChecksumOpen
  \/ FilenameChecksumRead
  \/ FilenameChecksumLoop
  \/ TimedCopyFileProbe
  \/ TimedCopyFileCompareSource
  \/ TimedCopyFileCompareDest
  \/ TimedCopyFileDecide
  \/ TimedCopyFileCopy
  \/ TimedCopyFileCopyLoop
  \/ TimedCopyFileAfterCopy
  \/ TimedCopyFileVerify
  \/ TimedCopyFileVerified
  \/ TimedCopyFileSourceDelete
  \/ TimedCopyFileBookkeeping
  \/ TimedCopyFileReturn
  \/ Rerun

Spec ==
  Init /\ [][Next]_vars

\* the user presses a key that ends the pause of a paused KeyboardCheck
KeyEndsPause ==
  KeyboardCheck /\ kc.iPause /\ pc' # "kc"

\* the commands of the runs that are checked for progress: one file, the
\* commands of every argument order, and a tree with the destination
\* apart from it (InitOrderJobs), inside it and around it
LiveInit ==
  \E w \in InitFileJobs \cup InitOrderJobs \cup InitInsideJobs
            \cup InitHolderJobs : InitWorld(w)

\* the program keeps running (it is one thread, and none of its calls
\* blocks), and a user who is shown "Pause..." ends the pause some time
LiveSpec ==
  LiveInit /\ [][Next]_vars /\ WF_vars(Next) /\ WF_vars(KeyEndsPause)

\* the walk of a directory that holds more than files and directories
WalkInit ==
  \E w \in InitSpecialJobs : InitWorld(w)

WalkSpec ==
  WalkInit /\ [][Next]_vars

(* ------------------------- FilenameChecksum alone ---------------------- *)
\* the files FilenameChecksum is given: every file of up to three of the
\* bytes 0, 1, 2, 7, 0x80; the four bytes 2, 7, 0, 0 and their reverse; and
\* the byte 0x80 or 0xFF followed by zeros, ChecksumLen bytes in all
ChecksumBytes ==
  {0, 1, 2, 7, 128}

ChecksumBuffers ==
  UNION {[1..n -> ChecksumBytes] : n \in 0..3}
  \cup {<<2, 7, 0, 0>>, <<0, 0, 7, 2>>}
  \cup {<<b>> \o Zero(ChecksumLen - 1) : b \in {128, 255}}

\* FilenameChecksum(s/f) is called, as TimedCopyFile calls it to compare or
\* to verify; what follows the call is left out
ChecksumInit ==
  \E b \in ChecksumBuffers :
    /\ dirs = {<<>>, <<"s">>, <<"d">>}
    /\ files = FileAt(<<"s", "f">>, File(b, 1, 1))
    /\ job = Job(TCPY_MODE_COPY, FALSE, <<"s">>, "f", <<"d">>, "")
    /\ pc = "fc_open"
    /\ iErr = 0
    /\ stack = <<>>
    /\ call = CallInit
    /\ tcf = TcfInit
    /\ fc = CallFilenameChecksum(<<"s", "f">>, "done")
    /\ kc = KcInit
    /\ g = GlobalInit
    /\ sys = <<>>
    /\ echo = <<>>
    /\ faults = 0
    /\ keys = 0
    /\ run = MaxRuns
    /\ start = [dirs |-> dirs, files |-> files, faults |-> 0, keys |-> 0]
    /\ polled = TRUE
    /\ others = <<>>
    /\ timing = TimingInit

ChecksumNext ==
  \/ FilenameChecksumOpen
  \/ FilenameChecksumRead
  \/ KeyboardCheck
  \/ FilenameChecksumLoop

ChecksumSpec ==
  ChecksumInit /\ [][ChecksumNext]_vars

(* ------------------- the throttle of the copy loop -------------------- *)
\* The copy loop of TimedCopyFile in the middle of a run, with or without
\* -f: source and destination are open and the reads return what some file
\* holds, so that only the byte counts and the throttle are followed.
ThrottleInit ==
  \E f \in BOOLEAN :
    /\ dirs = {<<>>, <<"s">>, <<"d">>}
    /\ files = FileAt(<<"s", "f">>, File(<<>>, 1, 1))
    /\ job = [Job(TCPY_MODE_COPY, FALSE, <<"s">>, "f", <<"d">>, "")
                EXCEPT !.giFaster = f]
    /\ pc = "tcf_copy"
    /\ iErr = 0
    /\ stack = <<>>
    /\ call = CallInit
    /\ tcf = [StartFile(<<"s", "f">>, <<"d", "f">>) EXCEPT !.opened = TRUE]
    /\ fc = FcInit
    /\ kc = KcInit
    /\ g = GlobalInit
    /\ sys = <<>>
    /\ echo = <<>>
    /\ faults = 0
    /\ keys = 0
    /\ run = MaxRuns
    /\ start = [dirs |-> dirs, files |-> files, faults |-> 0, keys |-> 0]
    /\ polled = TRUE
    /\ others = <<>>
    /\ timing = TimingInit

\* One iteration of the copy loop whose read returned iRead > 0 bytes: the
\* byte counts, the delay, the two readings of the clock around the write
\* (the second is not taken before the first) and the two globals.
ThrottledWrite ==
  /\ pc = "tcf_copy"
  /\ timing.writes < MaxWrites
  /\ \E iRead \in 1..LNBIGBUFFER, t1, t2 \in TimeSpecs :
       \E c1 \in ClockGettime(t1), c2 \in ClockGettime(t2) :
         LET Nano(t) == t.tv_sec * ONESECINNANO + t.tv_nsec
             iNano == Delay(g.giNanoPrev, g.giNanoFastest, iRead)
             prev == Measured(NanoTime(c1), NanoTime(c2), iRead)
             fastest == IF Faster(prev, g.giNanoFastest) THEN prev
                        ELSE g.giNanoFastest
         IN  /\ Nano(t1) <= Nano(t2)
             /\ g' = [g EXCEPT
                        !.giCopyByteCount = g.giCopyByteCount + iRead,
                        !.giTotalByteCount = g.giTotalByteCount + iRead,
                        !.giNanoPrev = prev,
                        !.giNanoFastest = fastest]
             /\ tcf' = [tcf EXCEPT !.iRead = iRead]
             /\ timing' = [timing EXCEPT
                             !.writes = timing.writes + 1,
                             !.before = [ok |-> c1.r = 0, now |-> Nano(t1),
                                         iTime |-> NanoTime(c1)],
                             !.after = [ok |-> c2.r = 0, now |-> Nano(t2),
                                        iTime |-> NanoTime(c2)],
                             !.iNano = IF job.giFaster THEN 0 ELSE iNano,
                             !.least = IF timing.writes = 0 \/ prev < timing.least
                                       THEN prev ELSE timing.least]
             /\ pc' = IF iRead = LNBIGBUFFER THEN "tcf_copy" ELSE "tcf_after"
  /\ UNCHANGED <<others, dirs, files, job, iErr, stack, call, fc, kc, sys,
                 echo, faults, keys, run, start, polled>>

\* The loop ends, on a partial read or on a read of 0 bytes, and the copy
\* loop of the next file of the run starts: nothing resets the two globals.
ThrottleNextFile ==
  /\ pc \in {"tcf_copy", "tcf_after"}
  /\ timing.files < MaxWrites
  /\ pc' = "tcf_copy"
  /\ tcf' = [tcf EXCEPT !.iRead = 0]
  /\ timing' = [timing EXCEPT !.files = timing.files + 1]
  /\ UNCHANGED <<others, dirs, files, job, iErr, stack, call, fc, kc, g, sys,
                 echo, faults, keys, run, start, polled>>

ThrottleNext ==
  \/ ThrottledWrite
  \/ ThrottleNextFile

ThrottleSpec ==
  ThrottleInit /\ [][ThrottleNext]_vars

(* ------------------------------ properties ---------------------------- *)
IsUnder(p, d) ==
  Len(p) >= Len(d) /\ Prefix(p, Len(d)) = d

\* the source file of the running transfer as it was before the transfer
\* (Move mode deletes it at the end)
SourceBefore ==
  IF FilenameExist(tcf.src) THEN files[Canon(tcf.src)]
  ELSE start.files[Canon(tcf.src)]

\* neither a system call was made to fail nor a key pressed in this run
QuietRun ==
  faults = start.faults /\ keys = start.keys

\* no system call was made to fail in this run
NoFault ==
  faults = start.faults

\* C1: whenever TimedCopyFile returns success in a non-dry run after taking
\* the copy path, the destination exists with the size, the modification
\* time and the bytes of the source, whatever the reads returned.
C1_CopiedMeansEqual ==
  (pc = "tcf_ret" /\ iErr = 0 /\ tcf.opened /\ ~job.giTestRun)
    => /\ FilenameExist(tcf.dst)
       /\ files[Canon(tcf.dst)] = SourceBefore

\* C2: in Move mode, a transfer that returns success has deleted the source
\* and left a destination equal to it; a transfer that returns an error has
\* left the source in place.
C2_MoveDeletesOnlyVerified ==
  (pc = "tcf_ret" /\ job.iMode = TCPY_MODE_DEL /\ ~job.giTestRun
     /\ tcf.iExistSource)
    => /\ iErr = 0 => /\ ~FilenameExist(tcf.src)
                      /\ FilenameExist(tcf.dst)
                      /\ files[Canon(tcf.dst)] = start.files[Canon(tcf.src)]
       /\ iErr # 0 => FilenameExist(tcf.src)

\* C3 as stated: a dry run makes no mutating call at all and leaves the file
\* system as it found it.
C3_DryRunNoCall ==
  job.giTestRun => (sys = <<>> /\ dirs = start.dirs /\ files = start.files)

\* C3 as the code has it: a dry run creates, writes, deletes and retimes no
\* file; the only mutating call it makes is mkdir, which adds the missing
\* destination directories.
C3_DryRunOnlyMkdir ==
  job.giTestRun => /\ \A i \in DOMAIN sys : sys[i].op = "mkdir"
                   /\ files = start.files
                   /\ start.dirs \subseteq dirs

C3_Witness ==
  /\ job.giTestRun
  /\ job.iMode = TCPY_MODE_MIRROR
  /\ pc = "done"
  /\ iErr = 0
  /\ \E i \in DOMAIN sys : sys[i].op = "mkdir" /\ sys[i].ok
  /\ \E i \in DOMAIN echo : echo[i].kind = "Copy"
  /\ \E i \in DOMAIN echo : echo[i].kind = "Delete"
  /\ dirs # start.dirs

\* the destination root lies inside the tree of the source directory
Nested ==
  /\ job.pSourceFile = ""
  /\ Canon(job.pDestDir) # Canon(job.pSourceDir)
  /\ IsUnder(Canon(job.pDestDir), Canon(job.pSourceDir))

SelfCopy ==
  /\ job.pSourceFile # ""
  /\ Canon(job.pSourceDir) = Canon(job.pDestDir)
  /\ job.pDestFile \in {"", job.pSourceFile}

\* C5: when source and destination resolve to the same directory and carry
\* the same file name, TimedCopy returns the "copy on itself" error before
\* any file I/O, in every mode.
C5_SelfCopyRejected ==
  SelfCopy => /\ pc \in {"main", "tc_enter", "tc_ret", "done"}
              /\ pc = "tc_ret" => iErr = ERROR_TCPY
              /\ sys = <<>>
              /\ files = start.files

CopyCommand ==
  \A i \in DOMAIN job.argv : job.argv[i].flag = ""

\* C7: the re-run of a Copy job after a run that ended in success, with the
\* source unchanged and no failing call and no key in the re-run, makes no
\* mutating call (writes no byte, deletes no file, creates no directory) and
\* ends in success.
C7_RerunChangesNothing ==
  (run = MaxRuns /\ CopyCommand /\ QuietRun)
    => /\ sys = <<>>
       /\ files = start.files
       /\ dirs = start.dirs
       /\ pc = "done" => iErr = 0

\* the dimensions in which the source and the destination of the running
\* transfer differ
Differing ==
  LET s == files[Canon(tcf.src)]
      d == files[Canon(tcf.dst)]
  IN  {x \in {"bytes", "sec", "nsec", "chk"} :
         \/ x = "bytes" /\ Len(s.data) # Len(d.data)
         \/ x = "sec" /\ s.sec # d.sec
         \/ x = "nsec" /\ s.nsec # d.nsec
         \/ x = "chk" /\ ChecksumAdd(s.data, {}) # ChecksumAdd(d.data, {})}

\* the decision step prints the deletion line of an existing destination
DeletionLogged ==
  /\ pc = "tcf_decide"
  /\ Len(echo') > Len(echo)
  /\ echo'[Len(echo) + 1].kind = "Delete"

\* C8 as stated: the deletion line of a differing destination names a
\* dimension (size, seconds, nanoseconds, checksum) if and only if the two
\* files differ in it, and the destination is deleted before it is opened
\* for writing.
C8_LineNamesEveryDifference ==
  [][(DeletionLogged /\ QuietRun /\ QuietRun')
       => /\ echo'[Len(echo) + 1].diff = Differing
          /\ ~job.giTestRun
               => sys'[Len(sys) + 1] = Sys("unlink", tcf.dst, TRUE, "stale")
    ]_vars

\* C8 as the code has it: the line names size, seconds and nanoseconds if
\* and only if they differ, with the size delta destination minus source,
\* and it names the checksum if and only if the checksums of the compare
\* step differ, which are computed only for equal nonzero sizes outside a
\* dry run; the unlink of the destination is the first call of the step and
\* the open for writing follows only if it succeeded.
C8_LineNamesComputedDifferences ==
  [][DeletionLogged
       => LET l == echo'[Len(echo) + 1]
              s == files[Canon(tcf.src)]
              d == files[Canon(tcf.dst)]
          IN  /\ l.a = tcf.dst
              /\ l.diff \ {"chk"} = Differing \ {"chk"}
              /\ l.delta = Len(d.data) - Len(s.data)
              /\ "chk" \in l.diff <=> tcf.iSourceChecksum # tcf.iDestChecksum
              /\ "chk" \in l.diff
                   => (Len(s.data) = Len(d.data) /\ Len(s.data) # 0
                         /\ ~job.giTestRun)
              /\ l.diff # {}
              /\ ~job.giTestRun
                   => /\ Len(sys') > Len(sys)
                      /\ sys'[Len(sys) + 1].op = "unlink"
                      /\ sys'[Len(sys) + 1].path = tcf.dst
                      /\ \A i \in (Len(sys) + 2)..Len(sys') :
                           sys'[i].op = "creat" => sys'[Len(sys) + 1].ok
    ]_vars

\* the 999-byte destination of a 1000-byte source, scaled: the line names the
\* bytes alone although the checksums of the two files differ too, and the
\* unlink comes before the open
C8_Witness ==
  /\ pc = "tcf_copy"
  /\ Len(echo) >= 2
  /\ echo[Len(echo) - 1].kind = "Delete"
  /\ echo[Len(echo) - 1].diff = {"bytes"}
  /\ echo[Len(echo) - 1].delta = 0 - 1
  /\ ChecksumAdd(files[Canon(tcf.src)].data, {})
       # ChecksumAdd(start.files[Canon(tcf.dst)].data, {})
  /\ Len(sys) = 2
  /\ sys[1] = Sys("unlink", tcf.dst, TRUE, "stale")
  /\ sys[2] = Sys("creat", tcf.dst, TRUE, "copy")

\* the source path that the mirror cleanup holds against destination path p
Counterpart(p) ==
  job.pSourceDir \o SubSeq(p, Len(job.pDestDir) + 1, Len(p))

C10_MoveDeletesSourceTree ==
  (pc = "done" /\ iErr = 0 /\ job.iMode = TCPY_MODE_DEL /\ ~job.giTestRun
     /\ job.pSourceFile = "")
    => /\ \A q \in DOMAIN files : ~IsUnder(q, Canon(job.pSourceDir))
       /\ \A q \in dirs : ~IsUnder(q, Canon(job.pSourceDir))

\* C11: once an error is raised it stays the run's error to the end: no
\* file transfer starts, no TimedCopy call is entered, no mirror cleanup
\* runs, and no call is made but the best-effort unlink of the destination
\* of the failed copy.
C11_ErrorIsFatal ==
  [][iErr # 0
       => /\ iErr' = iErr
          /\ pc' \notin {"parse", "main", "tc_enter", "tc_mirror", "tcf_probe",
                         "fc_open", "fc_read", "tcf_copy", "kc"}
          /\ dirs' = dirs
          /\ sys' # sys
               => (pc = "tcf_after"
                     /\ \E ok \in BOOLEAN :
                          sys' = Append(sys, Sys("unlink", tcf.dst, ok, "failed")))
          /\ files' # files => (pc = "tcf_after" /\ files' = Unlinked(files, tcf.dst))
    ]_vars

\* a Mirror run over a tree has returned to the outermost walk with an error
\* from a subdirectory, entries of the source directory left unread
C11_Witness ==
  /\ pc = "tc_ret"
  /\ Len(stack) = 1
  /\ iErr = ERROR_TCPY
  /\ job.iMode = TCPY_MODE_MIRROR
  /\ Top.phase = "walk"
  /\ \E e \in Top.todo : e.name = "f"
  /\ \E i \in DOMAIN sys : ~sys[i].ok
  /\ \E q \in DOMAIN files : IsUnder(q, Canon(job.pDestDir) \o <<"x">>)

\* C12 as stated: a copy that the user stopped keeps its destination: no
\* unlink of the destination follows the copy loop.
C12_StopKeepsDestination ==
  (pc = "tcf_ret" /\ iErr = ERROR_TCPY_STOP /\ tcf.opened /\ NoFault)
    => /\ FilenameExist(tcf.dst)
       /\ \A i \in DOMAIN sys : sys[i].why # "failed"

\* C12 as the code has it: a stop in the copy loop is an error of the copy
\* phase like any other, and the destination is unlinked after the loop
\* (best effort); only a stop after the copy phase, when the destination is
\* complete and retimed, leaves the destination in place.
C12_StopDeletesDestination ==
  (pc = "tcf_ret" /\ iErr = ERROR_TCPY_STOP /\ tcf.opened)
    => LET retimed == \E i \in DOMAIN sys :
                        sys[i] = Sys("utimensat", tcf.dst, TRUE, "retime")
       IN  /\ retimed => /\ FilenameExist(tcf.dst)
                         /\ \A i \in DOMAIN sys : sys[i].why # "failed"
           /\ ~retimed
                => /\ sys # <<>>
                   /\ sys[Len(sys)].op = "unlink"
                   /\ sys[Len(sys)].path = tcf.dst
                   /\ sys[Len(sys)].why = "failed"
                   /\ sys[Len(sys)].ok <=> ~FilenameExist(tcf.dst)

\* the user stopped the copy after its first buffer was written, and the
\* destination is gone
C12_Witness ==
  /\ pc = "tcf_ret"
  /\ iErr = ERROR_TCPY_STOP
  /\ tcf.opened
  /\ faults = 0
  /\ g.giTotalByteCount = LNBIGBUFFER
  /\ Len(files[Canon(tcf.src)].data) > LNBIGBUFFER
  /\ ~FilenameExist(tcf.dst)
  /\ sys[Len(sys)] = Sys("unlink", tcf.dst, TRUE, "failed")

\* C13: the run's error code is ERROR_TCPY_STOP exactly when KeyboardCheck
\* has read a stop key in this run: from the key on no later step replaces
\* the code, and no failing call is reported as a stop.
C13_StopIsTheUsers ==
  (iErr = ERROR_TCPY_STOP) <=> (kc.i = "quit")

\* a run over a tree has ended with the stop the user asked for in a copy
\* loop, although the unlink of the stopped copy's destination failed
C13_Witness ==
  /\ pc = "done"
  /\ iErr = ERROR_TCPY_STOP
  /\ kc.i = "quit"
  /\ job.pSourceFile = ""
  /\ sys # <<>>
  /\ sys[Len(sys)].why = "failed"
  /\ ~sys[Len(sys)].ok

(* ------------------------------- C14 ---------------------------------- *)
\* a step in which readdir returns an entry other than . and .. to the
\* walker or to the mirror cleanup
EntryRead ==
  /\ pc \in {"tc_walk", "tc_mirror"}
  /\ \E e \in Top.todo \cup Entries(Top.src) \cup Entries(Top.dst) :
       /\ e.name \notin {".", ".."}
       /\ e \notin Top.seen
       /\ stack' = SetTop(Read(Top, e))

\* C14, as the specification states it: between any two consecutive
\* directory entries of the walker and of the mirror cleanup, dry run
\* included, the keyboard is polled at least once.
C14_PollPerEntry ==
  [][EntryRead => polled]_vars

\* C14, amended: every iteration of a checksum loop polls the keyboard, and
\* so does every iteration of a copy loop whose write went well; nothing
\* else polls but the pause that was asked for after a file.  The walker
\* and the mirror cleanup poll nothing themselves, and a dry run never
\* polls.
C14_PollPerBuffer ==
  [][/\ pc = "fc_read" => pc' = "kc"
     /\ (pc = "tcf_copy" /\ iErr' = 0) => pc' = "kc"
     /\ (pc' = "kc" /\ pc # "kc")
          => \/ pc \in {"fc_read", "tcf_copy"}
             \/ pc = "tcf_book" /\ g.giPauseAfterVerif
     /\ EntryRead => pc' # "kc" /\ ~polled'
     /\ job.giTestRun => pc' # "kc"
    ]_vars

\* a run that copied more than one buffer, each with its poll, and then
\* handled another entry without any poll
C14_Witness ==
  /\ pc = "tc_walk"
  /\ ~job.giTestRun
  /\ iErr = 0
  /\ g.giTotalByteCount > LNBIGBUFFER
  /\ ~polled
  /\ keys = 0

(* ------------------------------- C15 ---------------------------------- *)
\* the run ended with the error of -sync, "Not Yet Implemented!": the
\* last argument parsed is -sync, and it was not refused as a second mode
Unimplemented ==
  /\ pc = "done"
  /\ iErr = ERROR_TCPY
  /\ job.i > 1
  /\ job.argv[job.i - 1].flag = "-sync"

\* C15: a run that ends with the Unimplemented error or with a Usage error
\* has started no traversal and changed nothing in the file system (it made
\* no directory), in whatever order the mode, the source and the
\* destination came.
C15_RefusedCommandDoesNothing ==
  (pc = "done" /\ (Unimplemented \/ iErr = ERROR_TCPY_USAGE))
    => /\ call = CallInit
       /\ g = GlobalInit
       /\ sys = <<>>
       /\ dirs = start.dirs
       /\ files = start.files

(* ------------------------------- C16 ---------------------------------- *)
\* C16: KeyboardCheck returns only unpaused or with the stop error.  With
\* no key pending and no induced pause it returns 0 after its first poll;
\* while it is paused and not stopped it polls again; out of a pause it
\* returns 0 only when a toggle key has ended the pause, and the stop error
\* only when a stop key was read; and a paused call returns in the end,
\* the user pressing a toggle or a stop key some time.
C16_KeyboardCheck ==
  /\ [][pc = "kc"
          => /\ iErr' \in {0, ERROR_TCPY_STOP}
             /\ pc' # "kc" => (iErr' = ERROR_TCPY_STOP \/ ~kc'.iPause)
             /\ (kc.i = "none" /\ kc'.i = "none" /\ ~kc.iPause)
                  => (pc' = kc.ret /\ iErr' = 0)
             /\ (kc'.iPause /\ kc'.i # "quit") => (pc' = "kc" /\ iErr' = iErr)
             /\ (kc.iPause /\ pc' # "kc" /\ iErr' = 0)
                  => (kc'.i = "pause" /\ ~kc'.iPause)
             /\ iErr' = ERROR_TCPY_STOP => kc'.i = "quit"
       ]_vars
  /\ (pc = "kc" /\ kc.iPause) ~> (pc # "kc")

\* the pause after a verification, asked for with 'V', was ended by a
\* toggle key, and the call returned 0
C16_Witness ==
  /\ pc = "tcf_ret"
  /\ kc.ret = "tcf_ret"
  /\ kc.i = "pause"
  /\ ~kc.iPause
  /\ iErr = 0
  /\ keys = MaxKeys

(* ------------------------------- C17 ---------------------------------- *)
\* C17: a source that exists and a destination that does not are different
\* whatever the size and the modification time of the source, and the file
\* is copied; so after a transfer without error that is no dry run the
\* destination exists, and in Move mode the source is not deleted while
\* the destination is absent.
C17_AbsentDestinationIsCopied ==
  /\ (pc = "tcf_decide" /\ iErr = 0 /\ tcf.iExistSource /\ ~tcf.iExistDest)
       => Different(tcf)
  /\ (/\ pc = "tcf_ret" /\ iErr = 0 /\ ~job.giTestRun
      /\ tcf.iExistSource /\ ~tcf.iExistDest)
       => FilenameExist(tcf.dst)
  /\ (/\ pc \in {"tcf_book", "tcf_ret"} /\ ~tcf.iExistDest
      /\ sys # <<>> /\ sys[Len(sys)] = Sys("unlink", tcf.src, TRUE, "source"))
       => FilenameExist(tcf.dst)

(* ------------------------------- C18 ---------------------------------- *)
\* the compare step computed the checksums of the transfer: both files
\* existed with equal sizes that are not 0, and the run is no dry run
Computed(t) ==
  t.iExistSource /\ t.iExistDest /\ SameSize(t) /\ ~job.giTestRun

\* C18: after a copy loop without error, a source checksum that the compare
\* step computed, 0 included, is held against the running checksum of the
\* destination: a mismatch is an error, after which the destination is
\* deleted; the running checksum replaces the source's only when none was
\* computed.
C18_IntegrityCheck ==
  [][(pc = "tcf_after" /\ iErr = 0)
       => IF Computed(tcf)
            THEN /\ tcf'.iSourceChecksum = tcf.iSourceChecksum
                 /\ tcf.iSourceChecksum # tcf.iDestChecksum
                      => /\ iErr' = ERROR_TCPY
                         /\ \E ok \in BOOLEAN :
                              sys' = Append(sys, Sys("unlink", tcf.dst, ok,
                                                     "failed"))
            ELSE tcf'.iSourceChecksum = tcf.iDestChecksum
    ]_vars

(* ------------------------------- C19 ---------------------------------- *)
\* the steps of a file's transfer, numbered in the order of the text:
\* 1 probe, 2 compare, 3 delete the stale destination (and open), 4 copy,
\* 5 integrity check and 6 retime, 7 re-verify, 8 source deletion,
\* 9 bookkeeping, 10 return; 0 outside TimedCopyFile
StepOf(l) ==
  CASE l = "tcf_probe" -> 1
    [] l \in {"tcf_cmp1", "tcf_cmp2"} -> 2
    [] l = "tcf_decide" -> 3
    [] l \in {"tcf_copy", "tcf_copyloop"} -> 4
    [] l = "tcf_after" -> 5
    [] l \in {"tcf_verify", "tcf_verified"} -> 7
    [] l = "tcf_srcdel" -> 8
    [] l = "tcf_book" -> 9
    [] l = "tcf_ret" -> 10
    [] OTHER -> 0

\* the step the program is in, FilenameChecksum and KeyboardCheck being
\* part of the step that called them
Step ==
  IF pc \in {"fc_open", "fc_read", "fc_loop"} THEN StepOf(fc.ret)
  ELSE IF pc = "kc"
    THEN (IF kc.ret = "fc_loop" THEN StepOf(fc.ret)
          ELSE IF kc.ret = "tcf_ret" THEN StepOf("tcf_book")
          ELSE StepOf(kc.ret))
  ELSE StepOf(pc)

\* the step a call on the files of the transfer belongs to
CallStep(c) ==
  CASE c.why = "stale" -> 3
    [] c.why = "copy" -> 4
    [] c.why = "failed" -> 5
    [] c.why = "retime" -> 6
    [] c.why = "verify" -> 7
    [] c.why = "source" -> 8
    [] OTHER -> 0

\* the calls of the current transfer among the calls of the run
Mine ==
  {i \in DOMAIN sys : CallStep(sys[i]) # 0 /\ sys[i].path \in {tcf.src, tcf.dst}}

\* C19: the steps of a file come in the order probe, compare, delete stale
\* destination, copy, integrity check, retime, re-verify, source deletion,
\* bookkeeping: the program never goes back to an earlier step; a step's
\* call is made once (but the writes of the copy loop) and after the calls
\* of the steps before; and after a failure no later step does anything,
\* but the unlink of the destination that follows a failed copy.
C19_StepsInOrder ==
  /\ [](\A i, j \in Mine :
          i < j => /\ CallStep(sys[i]) <= CallStep(sys[j])
                   /\ CallStep(sys[i]) = CallStep(sys[j]) => sys[j].op = "write"
                   /\ sys[i].why \notin {"failed", "verify"}
                   /\ ~sys[i].ok => sys[j].why = "failed")
  /\ [][/\ (Step # 0 /\ Step' # 0) => Step' >= Step
        /\ (Step # 0 /\ iErr # 0)
             => /\ iErr' = iErr
                /\ pc' \notin {"fc_open", "fc_read", "kc", "tcf_copy"}
                /\ UNCHANGED <<dirs, echo, g>>
                /\ sys' # sys
                     => (/\ Step = 5
                         /\ \E ok \in BOOLEAN :
                              sys' = Append(sys, Sys("unlink", tcf.dst, ok,
                                                     "failed")))
                /\ files' # files => files' = Unlinked(files, tcf.dst)
       ]_vars

\* a file was moved onto a destination that differed: every step did its
\* part, once, and in order
C19_Witness ==
  /\ pc = "tcf_ret"
  /\ iErr = 0
  /\ Computed(tcf)
  /\ Canon(tcf.src) # Canon(tcf.dst)
  /\ sys = <<Sys("unlink", tcf.dst, TRUE, "stale"),
             Sys("creat", tcf.dst, TRUE, "copy"),
             Sys("write", tcf.dst, TRUE, "copy"),
             Sys("write", tcf.dst, TRUE, "copy"),
             Sys("utimensat", tcf.dst, TRUE, "retime"),
             Sys("unlink", tcf.src, TRUE, "source")>>
  /\ \E i \in DOMAIN echo : echo[i].kind = "VerifyDest"
  /\ g.giFileCount = 1

(* ------------------------------- C20 ---------------------------------- *)
\* the decision of a dry run on two files of the same size, which is not 0
DryDecision ==
  /\ pc = "tcf_decide"
  /\ job.giTestRun
  /\ iErr = 0
  /\ tcf.iExistSource /\ tcf.iExistDest /\ SameSize(tcf)
  /\ Canon(tcf.src) # Canon(tcf.dst)

\* the lines of the decision to copy: the deletion of the destination,
\* then the copy
DecisionLines ==
  <<Line("Delete", tcf.dst, <<>>, DiffNamed(tcf),
         tcf.sStatDest.size - tcf.sStatSource.size),
    Line("Copy", tcf.src, tcf.dst, {}, 0)>>

\* C20, as the specification states it: in a dry run two files of the same
\* nonzero size are not read, and they are taken to differ: whatever their
\* modification times, the deletion and the copy are logged and the
\* verification comes next, without any access to the storage.
C20_DryRunAssumesDifferent ==
  [][/\ (pc = "tcf_probe" /\ job.giTestRun) => pc' = "tcf_decide"
     /\ DryDecision => /\ echo' = echo \o DecisionLines
                       /\ pc' = "tcf_verify"
                       /\ sys' = sys
                       /\ files' = files
    ]_vars

\* C20, amended: in a dry run two files of the same nonzero size are not
\* read, so both checksums are 0 and the files count as equal in content:
\* the deletion and the copy are logged, and the verification comes next,
\* only if the modification times differ; with the same times the file is
\* passed over as equal.  No call is made on the storage either way.
C20_DryRunComparesTimes ==
  [][/\ (pc = "tcf_probe" /\ job.giTestRun) => pc' = "tcf_decide"
     /\ DryDecision
          => /\ tcf.iSourceChecksum = {} /\ tcf.iDestChecksum = {}
             /\ sys' = sys
             /\ files' = files
             /\ IF \/ tcf.sStatSource.sec # tcf.sStatDest.sec
                   \/ tcf.sStatSource.nsec # tcf.sStatDest.nsec
                  THEN /\ echo' = echo \o DecisionLines
                       /\ pc' = "tcf_verify"
                  ELSE /\ echo' = echo
                       /\ pc' = "tcf_srcdel"
    ]_vars

\* a dry run passed over two files of the same size and time whose bytes
\* differ: it logged the comparison and nothing else
C20_Witness ==
  /\ pc = "tcf_ret"
  /\ job.giTestRun
  /\ job.iMode = TCPY_MODE_COPY
  /\ iErr = 0
  /\ tcf.iExistSource /\ tcf.iExistDest /\ SameSize(tcf)
  /\ tcf.sStatSource = tcf.sStatDest
  /\ files[Canon(tcf.src)].data # files[Canon(tcf.dst)].data
  /\ echo = <<Line("Verify", tcf.src, tcf.dst, {}, 0)>>
  /\ sys = <<>>

(* ------------------------------- C21 ---------------------------------- *)
\* the step reads the key 'v'
VerifKeyRead ==
  pc = "kc" /\ keys' = keys + 1 /\ kc'.i = "verif"

\* the step clears the deferred flag within a run
FlagCleared ==
  g.giPauseAfterVerif /\ ~g'.giPauseAfterVerif /\ run' = run

\* C21: the key 'v' only sets giPauseAfterVerif and leaves the pause state
\* of the poll that read it as it was; the flag is cleared by nothing but
\* the bookkeeping of a file that ended without error, which does clear it,
\* zeroes giFileCount and giCopyByteCount and calls KeyboardCheck(1); and
\* KeyboardCheck is entered paused by that step only: one induced pause for
\* each time the flag was set.
C21_PauseAfterVerif ==
  [][/\ VerifKeyRead =>
          (g'.giPauseAfterVerif /\ kc'.iPause = kc.iPause /\ iErr' = iErr)
     /\ FlagCleared =>
          /\ pc = "tcf_book" /\ iErr = 0
          /\ g'.giFileCount = 0 /\ g'.giCopyByteCount = 0
          /\ pc' = "kc" /\ kc'.iPause
     /\ (pc = "tcf_book" /\ iErr = 0 /\ g.giPauseAfterVerif) => FlagCleared
     /\ (pc # "kc" /\ pc' = "kc" /\ kc'.iPause) => FlagCleared]_vars

\* the induced pause of a request made while the file was being copied
C21_Witness ==
  /\ pc = "kc" /\ kc.iPause /\ kc.ret = "tcf_ret" /\ kc.i = "none"
  /\ keys = 1 /\ ~g.giPauseAfterVerif
  /\ \E i \in DOMAIN sys : sys[i].op = "write"

(* ------------------------------- C27 ---------------------------------- *)
\* the path and every ancestor of it is a directory
AllDirectories(p) ==
  \A n \in 0..Len(Canon(p)) : Prefix(Canon(p), n) \in dirs

\* DirectoryValidate(p) would change nothing
NoOp(p) ==
  LET v == Validated(p, 0)
  IN  v.n = 0 /\ v.err = 0 /\ v.dirs = dirs /\ v.sys = sys

\* the mkdir calls of the step
NewMkdirs ==
  {i \in (Len(sys) + 1)..Len(sys') : run' = run /\ sys'[i].op = "mkdir"}

\* C27: every mkdir is for a path that was no directory when
\* DirectoryValidate was called, is made after its parent exists (parent
\* before child), and is the only mkdir of that path in the run; after a
\* successful validation the path and its ancestors are directories; and
\* DirectoryValidate of a validated path, or of any directory, makes no call.
C27_DirectoryValidate ==
  /\ [](/\ \A d \in dirs : NoOp(d)
        /\ (pc = "tc_enter" /\ stack # <<>>) =>
              (AllDirectories(call.dst) /\ NoOp(call.dst))
        /\ (pc \in {"parse", "main"} /\ job.pDestDir # NULL) =>
              (AllDirectories(job.pDestDir) /\ NoOp(job.pDestDir)))
  /\ [][\A i \in NewMkdirs :
          LET p == Canon(sys'[i].path)
          IN  /\ p \notin dirs
              /\ \/ Parent(p) \in dirs
                 \/ \E j \in NewMkdirs :
                      j < i /\ sys'[j].ok /\ Canon(sys'[j].path) = Parent(p)
              /\ \A j \in 1..(i - 1) :
                   sys'[j].op = "mkdir" => Canon(sys'[j].path) # p
              /\ sys'[i].ok => p \in dirs']_vars

\* the walk made d/x and then, entering it, d/x/y; TimedCopy is about to be
\* called on the directory just validated
C27_Witness ==
  /\ pc = "tc_enter" /\ stack # <<>>
  /\ \E i, j \in DOMAIN sys :
       /\ i < j
       /\ sys[i].op = "mkdir" /\ sys[j].op = "mkdir"
       /\ sys[i].ok /\ sys[j].ok
       /\ Canon(sys[i].path) = Parent(Canon(sys[j].path))
       /\ sys[j].path = call.dst

(* ------------------------------- C28 ---------------------------------- *)
\* C28: within a run the recorded destination directory (giSt_dev,
\* giSt_ino), once set, is never changed; it is set by TimedCopy only, and
\* what it holds is the destination directory of main's call, the first
\* that TimedCopy resolved, whatever destination directories the recursive
\* calls resolve.
C28_GuardSetOnce ==
  /\ [](g.giSt # NoGuard => g.giSt = Canon(job.pDestDir))
  /\ [][/\ (g.giSt # NoGuard /\ run' = run) => g'.giSt = g.giSt
        /\ (g.giSt = NoGuard /\ g'.giSt # NoGuard) =>
             (pc = "tc_enter" /\ stack = <<>> /\ g'.giSt = Canon(call.dst))]_vars

\* a recursive call has resolved another destination directory and the
\* guard still holds the first
C28_Witness ==
  /\ Len(stack) >= 2
  /\ pc = "tc_walk"
  /\ DirectoryExist(Top.dst)
  /\ g.giSt # NoGuard
  /\ g.giSt # Canon(Top.dst)

(* ------------------------------- C30 ---------------------------------- *)
\* the deepest directory of the file system when the run started
Depth ==
  CHOOSE n \in 0..Cardinality(start.dirs) :
    /\ \E d \in start.dirs : Len(d) = n
    /\ \A d \in start.dirs : Len(d) <= n

\* C30: whatever the place of the destination (apart from the source tree,
\* inside it, or a directory that holds the source),
\* every run ends, with "Done!" or with an error, a pause being ended by
\* the user; and TimedCopy never nests deeper than the source tree that
\* was there when the run started, so it does not keep descending into
\* the directories it makes.
C30_RunEnds ==
  /\ [](Len(stack) <= Depth)
  /\ ((pc # "done") ~> (pc = "done"))

\* the run walked s/s/ and found in s, afterwards, the directory t that it
\* had made there itself
C30_Witness ==
  /\ Len(stack) = 2
  /\ pc = "tc_walk"
  /\ Canon(Top.src) = <<"s", "t">>
  /\ Canon(Top.src) \notin start.dirs

(* ------------------------------- C25 ---------------------------------- *)
\* the file that FilenameChecksum reads
Data ==
  files[Canon(fc.path)].data

\* the checksum, from the seed 0, of the first n bytes of the file
Sum(n) ==
  ChecksumAdd(Prefix(Data, n), {})

\* x rotated left by one bit as a 32-bit word
Rotl32(x) ==
  {(i + 1) % 32 : i \in x}

Xor(x, y) ==
  (x \ y) \cup (y \ x)

\* C25: every step of ChecksumAdd from a 32-bit state s with the byte b
\* yields rotl32(s XOR b, 1), and the checksum of the bytes read so far,
\* from the seed 0, has no bit above bit 31.
C25_Rotate32 ==
  /\ fc.cs \subseteq 0..31
  /\ \A n \in 1..fc.off :
       Sum(n - 1) \subseteq 0..31 =>
         Sum(n) = Rotl32(Xor(Sum(n - 1), Bits(Data[n])))

(* ------------------------------- C26 ---------------------------------- *)
Reverse(s) ==
  [i \in 1..Len(s) |-> s[Len(s) + 1 - i]]

\* FilenameChecksum has returned after reading the whole file
WholeFileRead ==
  pc = "done" /\ iErr = 0 /\ fc.off = Len(Data)

\* C26, as the specification states it: the checksum of a file differs from
\* the checksum of the same bytes in reverse order (for a file that is not
\* its own reverse)
C26_OrderSensitive ==
  (WholeFileRead /\ Data # Reverse(Data)) =>
     fc.cs # ChecksumAdd(Reverse(Data), {})

\* C26: the checksum FilenameChecksum has accumulated is the checksum, from
\* the seed 0, of the bytes read so far, whatever the buffers they came in
\* (the same as for the bytes cut in two at any place); reading without a
\* failing call reads the whole file; and the checksum of a file of up to
\* three bytes that is not its own reverse differs from that of its reverse.
C26_Deterministic ==
  /\ fc.cs = Sum(fc.off)
  /\ \A n \in 0..fc.off :
       fc.cs = ChecksumAdd(SubSeq(Data, n + 1, fc.off), Sum(n))
  /\ (pc = "done" /\ iErr = 0 /\ faults = 0) => WholeFileRead
  /\ (WholeFileRead /\ Len(Data) <= 3 /\ Data # Reverse(Data)) =>
        fc.cs # ChecksumAdd(Reverse(Data), {})

\* a file of three bytes read in two buffers, with another checksum than
\* its reverse
C26_Witness ==
  /\ WholeFileRead
  /\ Len(Data) = 3
  /\ Data # Reverse(Data)
  /\ fc.cs # {}
  /\ fc.cs # ChecksumAdd(Reverse(Data), {})

(* ------------------------------- C29 ---------------------------------- *)
\* C29: in the walk of a source directory, the step for an entry makes the
\* destination directory and calls TimedCopy for it if and only if the
\* entry is a directory (d_type DT_DIR) other than . and .., and calls
\* TimedCopyFile for it if and only if it is a regular file (DT_REG);
\* every other entry is passed over.
C29_EntryTypes ==
  [][\A e \in (IF pc = "tc_walk" THEN Readable(Top, Top.src) ELSE {}) :
       stack' = SetTop(Read(Top, e)) =>
         LET named == e.name \notin {".", ".."}
         IN  /\ (sys' # sys \/ pc' = "tc_enter") <=> (named /\ e.type = DT_DIR)
             /\ (pc' = "tcf_probe") <=> (named /\ e.type = DT_REG)]_vars

\* C22: in every state giNanoFastest <= giNanoPrev, so that the delay
\* giNanoPrev - giNanoFastest computed in TNSEC is the difference itself and
\* not a wrapped one; scaled for a partial buffer it is no larger; and while
\* no write was measured both values are 0 and so is the delay.
C22_DelayNeverWraps ==
  /\ g.giNanoFastest <= g.giNanoPrev
  /\ Wrap(g.giNanoPrev - g.giNanoFastest) = g.giNanoPrev - g.giNanoFastest
  /\ \A iRead \in 1..LNBIGBUFFER :
       /\ Delay(g.giNanoPrev, g.giNanoFastest, iRead)
            <= g.giNanoPrev - g.giNanoFastest
       /\ timing.writes = 0 =>
            /\ g.giNanoPrev = 0 /\ g.giNanoFastest = 0
            /\ Delay(g.giNanoPrev, g.giNanoFastest, iRead) = 0

\* a later write of a partial buffer was measured slower than the fastest
\* one, and the write before it was delayed
C22_Witness ==
  /\ timing.writes >= 2
  /\ tcf.iRead \in 1..(LNBIGBUFFER - 1)
  /\ 0 < g.giNanoFastest
  /\ g.giNanoFastest < g.giNanoPrev
  /\ Delay(g.giNanoPrev, g.giNanoFastest, tcf.iRead) > 0

\* C23: after any writes of a run, over all its files, giNanoFastest is the
\* minimum of the normalised durations recorded so far; it is replaced only
\* by a strictly lower one and never increases once a write was measured.
C23_FastestIsMinimum ==
  /\ [](timing.writes > 0 => g.giNanoFastest = timing.least)
  /\ [][timing.writes > 0 /\ g'.giNanoFastest # g.giNanoFastest
          => g'.giNanoFastest < g.giNanoFastest]_vars

\* C24: the duration recorded after a write is the time that elapsed from
\* the clock query before it to the one after it, scaled by
\* LNBIGBUFFER / iRead for a partial buffer, and a reading of NanoTime whose
\* clock query succeeded is the time it then was.
C24_MeasuresElapsed ==
  timing.writes > 0 =>
    /\ timing.before.ok => timing.before.iTime = timing.before.now
    /\ timing.after.ok => timing.after.iTime = timing.after.now
    /\ timing.before.ok /\ timing.after.ok =>
         g.giNanoPrev = IF tcf.iRead # LNBIGBUFFER
                        THEN ((timing.after.now - timing.before.now)
                                * LNBIGBUFFER) \div tcf.iRead
                        ELSE timing.after.now - timing.before.now
====
